---- MODULE Spec2Model ----
(***************************************************************************)
(* Verification model of the Cortex developer-memory service.             *)
(*                                                                         *)
(* The module holds several state machines over one set of variables,     *)
(* one per subsystem:                                                      *)
(*   SpecFilter    branch-aware search filter (tools/search.py)            *)
(*   SpecSearcher  memory saves, the shared HybridSearcher and its BM25    *)
(*                 index lifecycle under concurrent request threads        *)
(*   SpecIndex     the BM25 index lifecycle of one HybridSearcher          *)
(*   SpecIngest    delta-sync ingestion and its saved ingestion state      *)
(*   SpecCleanup   ingestion together with the orphan cleanup pass         *)
(*   SpecInsight   insight lifecycle: save, validate, deprecate, delete    *)
(*   SpecSupersede the insight lifecycle over an already superseded insight *)
(*   SpecRevalidate validate_insight calls over an already superseded insight *)
(*   SpecServices  the lazy singletons of configs/services.py under threads *)
(*   SpecCapture   the session-capture queue around process_session         *)
(*   SpecMigrate   the migration runner and the persisted schema version    *)
(*   SpecFusion    reciprocal rank fusion of two hit lists                  *)
(*   SpecScore     recency boost and score threshold of a search            *)
(*   SpecSingleton the skeleton and tech_stack documents of a repository      *)
(*   SpecConfigure the runtime configuration under configure_cortex          *)
(*   SpecMcp       the tools/call endpoint: lookup, validation, dispatch       *)
(*   SpecCommit    the migration of commit documents to session_summary        *)
(*   SpecScrub     the document text the memory saves build from their inputs  *)
(*   SpecDelta     get_git_changed_files over the lines of a name-status diff   *)
(* Each specification has its own initial predicate and leaves the        *)
(* variables of the other subsystems at rest.                              *)
(***************************************************************************)
EXTENDS Integers, Sequences, FiniteSets, TLC

VARIABLES
    fq,             \* SpecFilter: the last search_cortex filter evaluation
    store,          \* ids of the documents committed to the collection
    nextDoc,        \* next fresh document id (uuid4 in the code)
    hybrid_searcher,\* configs/services.py _hybrid_searcher: 0 is None, else an index into searchers
    searchers,      \* the HybridSearcher instances created so far
    th,             \* per request thread: position and locals
    returned,       \* ids whose save operation has returned a success status
    ixHist,         \* history of searcher 1: rebuilds by plain searches since the last invalidate
    bad,            \* history: calls that raised or scored against an unbuilt index
    git,            \* SpecIngest: the ingested tree is a git work tree
    disk,           \* file -> content version on disk (Absent when missing)
    headTree,       \* file -> content version in the HEAD commit
    ist,            \* the saved ingestion state: hash map and last-commit marker
    nav,            \* files whose navigation/usage documents are stored
    memory,         \* files an insight of the repository is linked to
    prevDisk,       \* history: the disk when the previous ingestion completed
    lastRun,        \* the last completed ingestion or cleanup and its statistics
    coll,           \* SpecInsight: document id -> metadata and text of the stored document
    nextId,         \* next fresh insight id (uuid4 in the code)
    now,            \* the time of the next tool call, the timestamp it writes
    head_commit,    \* the HEAD commit of the repository, 0 before the first commit
    call,           \* history: the validate_insight call that has just returned: the id it
                    \* validated, the id it refused, or the id it handled when a step raised
    capture_queue,  \* SpecCapture: the session ids of the jobs waiting for the worker
    fingerprints,   \* the session ids of the durable job records
    llm_calls,      \* session id -> number of summarize_session invocations
    summaries,      \* session id -> number of session_summary documents written
    presult,        \* session id -> the ProcessingResult of its job, if any
    happened,       \* history: session id -> what happened inside its process_session call
    schema_version, \* SpecMigrate: the version stored in schema_version.json, 0 when there is none
    migration_run,  \* the locals of the run_migrations call in progress or last finished
    migration_report, \* what the last finished run_migrations call returned
    vector_results, \* SpecFusion: the ids of the vector hits, best first
    bm25_results,   \* the ids of the lexical hits, best first
    fused,          \* the list reciprocal_rank_fusion returned, NotFused before the call
    reranked,       \* SpecScore: the reranker's output, best rerank_score first
    scoring,        \* CONFIG and the arguments of the call: recency_boost, min_score, ...
    boosted,        \* the list apply_recency_boost returned
    filtered,       \* the results search_cortex kept after the threshold
    score_pc,       \* "input", or which of the two functions has run
    repo_docs,      \* SpecSingleton: the skeleton and tech_stack documents of the collection
    rewrote,        \* history: the last write found a document under its id
    CONFIG,         \* SpecConfigure: the runtime configuration
    configure_call, \* history: the arguments of the configure_cortex call that has just returned
    mcp_call,       \* SpecMcp: the tools/call request that has just been served and its outcome
    legacy_coll,    \* SpecCommit: document id -> document of a collection with legacy commit documents
    commit_run,     \* history: how the last migration_002 call ended and the collection it found
    stored_text,    \* SpecScrub: the operation and the document text of the last memory save
    diff_input,     \* SpecDelta: since_commit and what git diff --name-status answers
    diff_result,    \* what get_git_changed_files returned, NoDelta before the call
    services,       \* SpecServices: the module globals of configs/services.py and the objects created
    callers,        \* per request thread: its position in get_searcher or get_collection and its locals
    obtained        \* history: what the calls returned since the last set_collection

varsFilter == <<fq>>
varsSearcher == <<store, nextDoc, hybrid_searcher, searchers, th, returned, ixHist, bad>>
varsIngest == <<git, disk, headTree, ist, nav, memory, prevDisk, lastRun>>
varsInsight == <<coll, nextId, now, head_commit, call>>
varsCapture == <<capture_queue, fingerprints, llm_calls, summaries, presult, happened>>
varsDocs == <<repo_docs, rewrote>>
varsConfig == <<CONFIG, configure_call>>
varsMcp == <<mcp_call>>
varsCommit == <<legacy_coll, commit_run>>
varsScrub == <<stored_text>>
varsDelta == <<diff_input, diff_result>>
varsServices == <<services, callers, obtained>>
varsLate == <<varsDocs, varsConfig, varsMcp, varsCommit, varsScrub, varsDelta, varsServices>>
varsButDocs == <<varsConfig, varsMcp, varsCommit, varsScrub, varsDelta, varsServices>>
varsButConfig == <<varsDocs, varsMcp, varsCommit, varsScrub, varsDelta, varsServices>>
varsButMcp == <<varsDocs, varsConfig, varsCommit, varsScrub, varsDelta, varsServices>>
varsButCommit == <<varsDocs, varsConfig, varsMcp, varsScrub, varsDelta, varsServices>>
varsButScrub == <<varsDocs, varsConfig, varsMcp, varsCommit, varsDelta, varsServices>>
varsButDelta == <<varsDocs, varsConfig, varsMcp, varsCommit, varsScrub, varsServices>>
varsButServices == <<varsDocs, varsConfig, varsMcp, varsCommit, varsScrub, varsDelta>>
varsCore == <<varsFilter, varsSearcher, varsIngest, varsInsight, varsLate>>
varsMigrate == <<schema_version, migration_run, migration_report>>
varsFusion == <<vector_results, bm25_results, fused>>
varsScore == <<reranked, scoring, boosted, filtered, score_pc>>
varsMore == <<varsCapture, varsMigrate, varsFusion, varsScore, varsLate>>
varsEarly == <<varsFilter, varsSearcher, varsIngest, varsInsight, varsCapture, varsMigrate, varsFusion, varsScore>>
varsRest == <<varsIngest, varsInsight, varsMore>>

----------------------------------------------------------------------------
(* Document taxonomy (models/base.py) *)

NoneVal == "None"

ALL_DOCUMENT_TYPES ==
    {"file_metadata", "dependency", "skeleton",
     "entry_point", "data_contract", "idiom",
     "note", "session_summary", "insight", "tech_stack", "initiative"}

BRANCH_FILTERED_TYPES ==
    {"skeleton", "file_metadata", "data_contract", "entry_point", "dependency"}

MemoryTypes == {"note", "session_summary", "insight"}
ContextTypes == {"tech_stack", "initiative"}

\* Legacy type tags that build_branch_aware_filter still names.
LegacyTypes == {"code", "commit"}

----------------------------------------------------------------------------
(* SpecFilter: build_branch_aware_filter and its use by search_cortex *)

BranchNames == {"main", "master", "feature", "unknown"}
ProjectNames == {"alpha", "beta"}

\* A ChromaDB where-clause is a tree of tagged records.
WEq(k, v)  == [op |-> "eq", key |-> k, val |-> v]
WIn(k, vs) == [op |-> "in", key |-> k, vals |-> vs]
WAnd(cs)   == [op |-> "and", args |-> cs]
WOr(cs)    == [op |-> "or", args |-> cs]
WNone      == [op |-> "none"]

SeqElems(s) == {s[i] : i \in 1..Len(s)}

\* Evaluation of a where-clause on a metadata record; a key the metadata
\* lacks matches nothing; a None filter matches everything.
RECURSIVE MatchWhere(_, _)
MatchWhere(w, meta) ==
    CASE w.op = "none" -> TRUE
      [] w.op = "eq"   -> w.key \in DOMAIN meta /\ meta[w.key] = w.val
      [] w.op = "in"   -> w.key \in DOMAIN meta /\ meta[w.key] \in SeqElems(w.vals)
      [] w.op = "and"  -> \A i \in 1..Len(w.args) : MatchWhere(w.args[i], meta)
      [] w.op = "or"   -> \E i \in 1..Len(w.args) : MatchWhere(w.args[i], meta)

build_branch_aware_filter(project, branches) ==
    IF branches = <<>> \/ branches = <<"unknown">>
    THEN IF project # NoneVal THEN WEq("project", project) ELSE WNone
    ELSE LET branch_filter ==
                WOr(<< WAnd(<< WIn("type", <<"code", "skeleton">>),
                               WIn("branch", branches) >>),
                       WIn("type", <<"note", "commit", "tech_stack", "initiative">>) >>)
         IN  IF project # NoneVal
             THEN WAnd(<< WEq("project", project), branch_filter >>)
             ELSE branch_filter

\* search_cortex: explicit branch if provided, otherwise the detected one.
EffectiveBranch(branch, current_branch) ==
    IF branch # NoneVal THEN branch ELSE current_branch

\* search_cortex: current branch plus main unless already on main/master.
BranchList(effective_branch) ==
    IF effective_branch \notin {"main", "master", "unknown"}
    THEN <<effective_branch, "main">>
    ELSE <<effective_branch>>

\* Metadata of a stored document: the project key may be absent.
DocMeta(type, branch, project) ==
    IF project = NoneVal
    THEN [type |-> type, branch |-> branch]
    ELSE [type |-> type, branch |-> branch, project |-> project]

InitFilter ==
    fq = [pc |-> "idle", branch |-> NoneVal, current |-> "unknown", project |-> NoneVal,
          type |-> "note", dbranch |-> "unknown", dproject |-> NoneVal,
          effective |-> "unknown", admitted |-> FALSE]

\* One filter evaluation of search_cortex against one stored document.
FilterSearch ==
    /\ fq.pc = "idle"
    /\ \E branch \in BranchNames \cup {NoneVal}, current \in BranchNames,
          project \in ProjectNames \cup {NoneVal},
          type \in ALL_DOCUMENT_TYPES \cup LegacyTypes,
          dbranch \in BranchNames, dproject \in {"alpha", NoneVal} :
           LET effective == EffectiveBranch(branch, current)
               where == build_branch_aware_filter(project, BranchList(effective))
           IN  /\ fq' = [pc |-> "done", branch |-> branch, current |-> current,
                         project |-> project, type |-> type, dbranch |-> dbranch,
                         dproject |-> dproject, effective |-> effective,
                         admitted |-> MatchWhere(where, DocMeta(type, dbranch, dproject))]
               /\ UNCHANGED <<varsSearcher, varsRest>>

----------------------------------------------------------------------------
(* SpecSearcher / SpecIndex: memory saves, the searcher singleton and the  *)
(* lexical index lifecycle                                                 *)

NThreads == 2
MaxDocs == 2
Threads == 1..NThreads

\* A freshly constructed HybridSearcher: nothing built yet, marked dirty.
NewSearcher == [lock |-> 0, dirty |-> TRUE, index |-> "none", docs |-> {}]

IdleThread == [pc |-> "idle", op |-> "none", h |-> 0, flag |-> FALSE, doc |-> 0,
               snap |-> {}, must |-> {},
               ens |-> [built |-> FALSE, dirty |-> FALSE, rebuilt |-> FALSE]]

\* Mutant: the mutex is never waited for.
LockFree_unguarded(s) == TRUE

\* The index mutex is free for the taking.
LockFree(s) == s.lock = 0

\* Mutant: every search rebuilds.
NeedsRebuild_always(s, rebuild_index) == TRUE

\* _ensure_index: a search rebuilds when the index is dirty, was never built,
\* or the caller forces it.
NeedsRebuild(s, rebuild_index) == s.dirty \/ rebuild_index \/ s.index = "none"

SetTh(t, r) == th' = [th EXCEPT ![t] = r]
SetSearcher(h, s) == searchers' = [searchers EXCEPT ![h] = s]

\* Mutant: the save reports success although the upsert wrote nothing.
StartSave_lost_upsert(t, op, ok) ==
    /\ th[t].pc = "idle"
    /\ nextDoc <= MaxDocs
    /\ nextDoc' = nextDoc + 1
    /\ store' = store
    /\ SetTh(t, [IdleThread EXCEPT !.pc = "get_searcher", !.op = "save", !.doc = nextDoc])
    /\ UNCHANGED <<hybrid_searcher, searchers, returned, ixHist, bad, fq, varsRest>>

\* The common body of the save operations up to the upsert: a fresh id, then
\* collection.upsert; an exception of the store ends the call with status
\* "error" and nothing written.
StartSave(t, op, ok) ==
    /\ th[t].pc = "idle"
    /\ nextDoc <= MaxDocs
    /\ IF ok
       THEN /\ store' = store \cup {nextDoc}
            /\ nextDoc' = nextDoc + 1
            /\ SetTh(t, [IdleThread EXCEPT !.pc = "get_searcher", !.op = "save", !.doc = nextDoc])
       ELSE UNCHANGED <<store, nextDoc, th>>
    /\ UNCHANGED <<hybrid_searcher, searchers, returned, ixHist, bad, fq, varsRest>>

save_note(t) ==
    /\ th[t].pc = "idle"
    /\ \E ok \in BOOLEAN : StartSave(t, "save_note", ok)

\* save_insight rejects an empty files list before anything is written.
save_insight(t) ==
    \E files \in {<<>>, <<"a.py">>}, ok \in BOOLEAN :
        IF files = <<>>
        THEN /\ th[t].pc = "idle"
             /\ UNCHANGED <<store, nextDoc, hybrid_searcher, searchers, th, returned,
                            ixHist, bad, fq, varsRest>>
        ELSE StartSave(t, "save_insight", ok)

conclude_session(t) ==
    /\ th[t].pc = "idle"
    /\ \E ok \in BOOLEAN : StartSave(t, "conclude_session", ok)

\* search_cortex: obtains the searcher and searches with rebuild_index=True.
\* must records the saves that had returned when the search started.
search_cortex(t) ==
    /\ th[t].pc = "idle"
    /\ SetTh(t, [IdleThread EXCEPT !.pc = "get_searcher", !.op = "search",
                                   !.flag = TRUE, !.must = returned])
    /\ UNCHANGED <<store, nextDoc, hybrid_searcher, searchers, returned, ixHist, bad, fq, varsRest>>

AfterGetSearcher(op) == IF op = "search" THEN "s_ensure" ELSE "b_lock"

\* get_searcher, the test `_hybrid_searcher is None`.
get_searcher(t) ==
    /\ th[t].pc = "get_searcher"
    /\ IF hybrid_searcher # 0
       THEN SetTh(t, [th[t] EXCEPT !.pc = AfterGetSearcher(th[t].op), !.h = hybrid_searcher])
       ELSE SetTh(t, [th[t] EXCEPT !.pc = "gs_create"])
    /\ UNCHANGED <<store, nextDoc, hybrid_searcher, searchers, returned, ixHist, bad, fq, varsRest>>

\* get_searcher, the construction and the assignment to the global.
get_searcher_create(t) ==
    /\ th[t].pc = "gs_create"
    /\ searchers' = Append(searchers, NewSearcher)
    /\ hybrid_searcher' = Len(searchers) + 1
    /\ SetTh(t, [th[t] EXCEPT !.pc = AfterGetSearcher(th[t].op), !.h = Len(searchers) + 1])
    /\ UNCHANGED <<store, nextDoc, returned, ixHist, bad, fq, varsRest>>

\* History of searcher 1, kept for the rebuild-count claims.
HistBuilt == [epoch |-> "built", plain |-> 0, rebuilds |-> 0]
HistInvalidated == [epoch |-> "invalidated", plain |-> 0, rebuilds |-> 0]
Sat(n) == IF n >= 2 THEN 2 ELSE n + 1

\* HybridSearcher.build_index, taking the mutex and fetching the collection.
build_index_begin(t) ==
    /\ th[t].pc = "b_lock"
    /\ LockFree(searchers[th[t].h])
    /\ SetSearcher(th[t].h, [searchers[th[t].h] EXCEPT !.lock = t, !.index = "partial"])
    /\ SetTh(t, [th[t] EXCEPT !.pc = "b_building", !.snap = store])
    /\ ixHist' = IF th[t].h = 1 THEN HistBuilt ELSE ixHist
    /\ UNCHANGED <<store, nextDoc, hybrid_searcher, returned, bad, fq, varsRest>>

\* The end of a rebuild: the new index is installed, the dirty flag cleared
\* and the mutex released. A save operation returns its success status here.
build_finish(t) ==
    /\ th[t].pc \in {"b_building", "s_building"}
    /\ SetSearcher(th[t].h, [searchers[th[t].h] EXCEPT !.lock = 0, !.index = "built",
                                                       !.dirty = FALSE, !.docs = th[t].snap])
    /\ IF th[t].pc = "s_building"
       THEN /\ SetTh(t, [th[t] EXCEPT !.pc = "s_read"])
            /\ returned' = returned
       ELSE /\ SetTh(t, IdleThread)
            /\ returned' = IF th[t].op = "build_index" THEN returned
                           ELSE returned \cup {th[t].doc}
    /\ UNCHANGED <<store, nextDoc, hybrid_searcher, ixHist, bad, fq, varsRest>>

\* HybridSearcher.search, first half: under the mutex, rebuild if needed.
search_ensure(t) ==
    /\ th[t].pc = "s_ensure"
    /\ LockFree(searchers[th[t].h])
    /\ LET s == searchers[th[t].h]
           rebuild == NeedsRebuild(s, th[t].flag)
           ens == [built |-> s.index = "built", dirty |-> s.dirty, rebuilt |-> rebuild]
       IN  /\ IF rebuild
              THEN /\ SetSearcher(th[t].h, [s EXCEPT !.lock = t, !.index = "partial"])
                   /\ SetTh(t, [th[t] EXCEPT !.pc = "s_building", !.snap = store, !.ens = ens])
              ELSE /\ SetTh(t, [th[t] EXCEPT !.pc = "s_read", !.ens = ens])
                   /\ UNCHANGED searchers
           /\ ixHist' =
                IF th[t].h # 1 THEN ixHist
                ELSE IF th[t].flag THEN HistBuilt
                ELSE [ixHist EXCEPT !.plain = Sat(@),
                                    !.rebuilds = IF rebuild THEN Sat(@) ELSE @]
    /\ UNCHANGED <<store, nextDoc, hybrid_searcher, returned, bad, fq, varsRest>>

\* HybridSearcher.search, second half: under the mutex, score against the index.
search_read(t) ==
    /\ th[t].pc = "s_read"
    /\ LockFree(searchers[th[t].h])
    /\ LET s == searchers[th[t].h]
       IN  /\ bad' = bad \cup (IF s.index = "built" THEN {} ELSE {s.index})
                        \cup (IF th[t].must \subseteq s.docs THEN {} ELSE {"missed"})
           /\ SetTh(t, IdleThread)
    /\ UNCHANGED <<store, nextDoc, hybrid_searcher, searchers, returned, ixHist, fq, varsRest>>

\* HybridSearcher.invalidate: under the mutex, mark the index dirty.
invalidate(t) ==
    /\ th[t].pc = "idle"
    /\ hybrid_searcher # 0
    /\ LockFree(searchers[hybrid_searcher])
    /\ SetSearcher(hybrid_searcher, [searchers[hybrid_searcher] EXCEPT !.dirty = TRUE])
    /\ ixHist' = IF hybrid_searcher = 1 THEN HistInvalidated ELSE ixHist
    /\ UNCHANGED <<store, nextDoc, hybrid_searcher, th, returned, bad, fq, varsRest>>

\* A direct HybridSearcher.search(query, rebuild_index=flag) on the searcher.
search(t) ==
    /\ th[t].pc = "idle"
    /\ hybrid_searcher # 0
    /\ \E flag \in BOOLEAN :
         SetTh(t, [IdleThread EXCEPT !.pc = "s_ensure", !.op = "search", !.flag = flag,
                                     !.h = hybrid_searcher, !.must = returned])
    /\ UNCHANGED <<store, nextDoc, hybrid_searcher, searchers, returned, ixHist, bad, fq, varsRest>>

\* A direct HybridSearcher.build_index() call.
build_index(t) ==
    /\ th[t].pc = "idle"
    /\ hybrid_searcher # 0
    /\ SetTh(t, [IdleThread EXCEPT !.pc = "b_lock", !.op = "build_index", !.h = hybrid_searcher])
    /\ UNCHANGED <<store, nextDoc, hybrid_searcher, searchers, returned, ixHist, bad, fq, varsRest>>

\* collection.add by the owner of the collection, outside the searcher.
collection_add ==
    /\ nextDoc <= MaxDocs
    /\ store' = store \cup {nextDoc}
    /\ nextDoc' = nextDoc + 1
    /\ UNCHANGED <<hybrid_searcher, searchers, th, returned, ixHist, bad, fq, varsRest>>

InitSearcher ==
    /\ store = {}
    /\ nextDoc = 1
    /\ hybrid_searcher = 0
    /\ searchers = <<>>
    /\ th = [t \in Threads |-> IdleThread]
    /\ returned = {}
    /\ ixHist = [epoch |-> "fresh", plain |-> 0, rebuilds |-> 0]
    /\ bad = {}

\* One HybridSearcher constructed over the collection, as the tests do.
InitOneSearcher ==
    /\ store = {}
    /\ nextDoc = 1
    /\ hybrid_searcher = 1
    /\ searchers = <<NewSearcher>>
    /\ th = [t \in Threads |-> IdleThread]
    /\ returned = {}
    /\ ixHist = [epoch |-> "fresh", plain |-> 0, rebuilds |-> 0]
    /\ bad = {}

NextSearcher ==
    \E t \in Threads :
        \/ save_note(t)
        \/ save_insight(t)
        \/ conclude_session(t)
        \/ search_cortex(t)
        \/ get_searcher(t)
        \/ get_searcher_create(t)
        \/ build_index_begin(t)
        \/ build_finish(t)
        \/ search_ensure(t)
        \/ search_read(t)

NextIndex ==
    \/ collection_add
    \/ \E t \in Threads :
        \/ search(t)
        \/ invalidate(t)
        \/ build_index(t)
        \/ build_index_begin(t)
        \/ build_finish(t)
        \/ search_ensure(t)
        \/ search_read(t)

----------------------------------------------------------------------------
(* SpecIngest / SpecCleanup: delta-sync ingestion of one (repository,      *)
(* branch), its saved state, and orphan garbage collection                 *)

Files == {"a.py", "b.py"}
MaxVer == 2
Absent == 0
\* a.py is edited through MaxVer versions; b.py is only created and deleted.
Contents(f) == IF f = "a.py" THEN 1..MaxVer ELSE {1}

\* Content hash of a file version (MD5 hex digest of the bytes), and the
\* absence of an entry in the hash map.
NoHash == <<"none", 0>>
compute_file_hash(c) == <<"md5", c>>

\* No validate_insight call has just returned.
NoCall == [insight_id |-> 0, deprecate |-> FALSE, error_id |-> 0, raised_id |-> 0]

EmptyTree == [f \in Files |-> Absent]
NoRun == [kind |-> "none", seq |-> 0, force_full |-> FALSE,
          files_processed |-> {}, errors |-> {}]
\* The statistics are those of the call that has just returned; the failed
\* files of the last ingestion stay known.
Forget(run) == [NoRun EXCEPT !.errors = run.errors]

\* Navigation/usage documents a processed file yields: file_metadata and
\* dependency always, entry_point and data_contract where the extractor
\* finds them.
FileDocTypes == {"file_metadata", "dependency", "entry_point", "data_contract"}
Extracted(f) == IF f = "a.py" THEN FileDocTypes ELSE {"file_metadata", "dependency"}
NavDocs(n) == {d \in FileDocTypes \X Files : d[2] \in n /\ d[1] \in Extracted(d[2])}

Walked == {f \in Files : disk[f] # Absent}
Untracked == {f \in Walked : headTree[f] = Absent}
\* A recorded commit is kept as the tree it names.
NoCommit == [set |-> FALSE, tree |-> EmptyTree]
CommitOf(tree) == [set |-> TRUE, tree |-> tree]
\* git diff --name-status last_commit HEAD: paths whose blob differs.
GitChanged == {f \in Files : ist.last_commit.tree[f] # headTree[f]}

\* Step 2, the delta strategy.
Strategy(force_full) ==
    IF force_full THEN "full"
    ELSE IF git /\ ist.last_commit.set THEN "git"
    ELSE IF ist.saved THEN "hash"
    ELSE "full"

Candidates(strategy) ==
    CASE strategy = "git"  -> (GitChanged \cup Untracked) \cap Walked
      [] strategy = "hash" -> Walked
      [] strategy = "full" -> Walked

\* Mutant: the per-file hash comparison is dropped.
Selected_no_hash_skip(force_full) == Candidates(Strategy(force_full))

\* Step 4, first line: a candidate is skipped when its hash is the recorded
\* one and the run is not forced.
Selected(force_full) ==
    {f \in Candidates(Strategy(force_full)) :
        force_full \/ ist.file_hashes[f] # compute_file_hash(disk[f])}

\* Step 6: the marker is set to HEAD at the end of the run.
NewLastCommit == IF git THEN CommitOf(headTree) ELSE NoCommit

\* ingest(path, force_full): steps 2 to 7 of one run; failed are the selected
\* files whose processing raises in this run.
Ingest ==
    \E force_full \in BOOLEAN :
      \E failed \in SUBSET Selected(force_full) :
        LET selected == Selected(force_full)
            processed == selected \ failed
        IN  /\ nav' = (nav \cup processed) \cap Walked
            /\ ist' = [saved |-> TRUE,
                       file_hashes |-> [f \in Files |->
                           IF f \in processed THEN compute_file_hash(disk[f])
                           ELSE IF f \notin Walked \/ f \in failed THEN NoHash
                           ELSE ist.file_hashes[f]],
                       last_commit |-> NewLastCommit]
            /\ prevDisk' = disk
            /\ lastRun' = [kind |-> "ingest", seq |-> 1 - lastRun.seq,
                           force_full |-> force_full,
                           files_processed |-> processed, errors |-> failed]
            /\ UNCHANGED <<varsFilter, varsSearcher, varsMore, varsInsight, git, disk, headTree, memory>>

\* run_cleanup(collection, repo_path, repository, dry_run, rebuild_index_fn):
\* orphaned file documents and orphaned insights are counted, and deleted
\* unless dry_run.
run_cleanup ==
    \E dry_run \in BOOLEAN :
        /\ nav' = IF dry_run THEN nav ELSE nav \cap Walked
        /\ memory' = IF dry_run THEN memory ELSE memory \cap Walked
        /\ lastRun' = [Forget(lastRun) EXCEPT
                          !.kind = IF dry_run THEN "preview" ELSE "cleanup",
                          !.seq = 1 - lastRun.seq]
        /\ UNCHANGED <<varsFilter, varsSearcher, varsMore, varsInsight, git, disk, headTree, ist, prevDisk>>

\* The developer writes (creates or modifies) a file.
WriteFile ==
    \E f \in Files :
      \E c \in Contents(f) :
        /\ disk[f] # c
        /\ disk' = [disk EXCEPT ![f] = c]
        /\ lastRun' = Forget(lastRun)
        /\ call' = NoCall
        /\ UNCHANGED <<varsFilter, varsSearcher, varsMore, coll, nextId, now, head_commit,
                       git, headTree, ist, nav, memory, prevDisk>>

\* The developer deletes a file.
DeleteFile ==
    \E f \in Files :
        /\ disk[f] # Absent
        /\ disk' = [disk EXCEPT ![f] = Absent]
        /\ lastRun' = Forget(lastRun)
        /\ call' = NoCall
        /\ UNCHANGED <<varsFilter, varsSearcher, varsMore, coll, nextId, now, head_commit,
                       git, headTree, ist, nav, memory, prevDisk>>

\* git add -A; git commit.
Commit ==
    /\ git
    /\ headTree # disk
    /\ headTree' = disk
    /\ lastRun' = Forget(lastRun)
    /\ UNCHANGED <<varsFilter, varsSearcher, varsMore, varsInsight, git, disk, ist, nav, memory, prevDisk>>

\* save_insight with a linked file of the repository: a memory document
\* is added.
SaveMemory ==
    \E f \in Walked :
        /\ f \notin memory
        /\ memory' = memory \cup {f}
        /\ lastRun' = Forget(lastRun)
        /\ UNCHANGED <<varsFilter, varsSearcher, varsMore, varsInsight, git, disk, headTree, ist, nav, prevDisk>>

InitIngest(gitChoices) ==
    /\ git \in gitChoices
    /\ disk = [f \in Files |-> 1]
    /\ headTree = EmptyTree
    /\ ist = [saved |-> FALSE, file_hashes |-> [f \in Files |-> NoHash],
              last_commit |-> NoCommit]
    /\ nav = {}
    /\ memory = {}
    /\ prevDisk = disk
    /\ lastRun = NoRun

NextIngest ==
    \/ Ingest
    \/ WriteFile
    \/ DeleteFile
    \/ Commit

NextCleanup ==
    \/ Ingest
    \/ run_cleanup
    \/ WriteFile
    \/ DeleteFile
    \/ SaveMemory

----------------------------------------------------------------------------
(* SpecInsight: the insight lifecycle -- save_insight, validate_insight    *)
(* and delete_document over the collection, with the developer editing     *)
(* and committing the linked files in between                              *)

MaxInsights == 3
MaxCalls == 2
MaxCommits == 1

InsightTexts == {"insight"}
ReplacementText == "replacement"
ValidationResults == {"still_valid", "partially_valid", "no_longer_valid"}
NotesChoices == {NoneVal, "notes"}
LinkedFilesChoices == {{}, {"a.py"}}
DefaultReason == "Marked invalid during validation"
StoreOutcomes == {"ok", "upsert_raised"}

\* get_repo_path: the working directory when it is a git repository.
get_repo_path == IF git THEN "cwd" ELSE NoneVal
\* get_head_commit: the HEAD commit, 0 (None) before the first commit.
get_head_commit == head_commit

NoHashes == [f \in Files |-> NoHash]
\* compute_file_hashes: without a repo path nothing is hashed; a linked
\* file that does not exist gets no entry.
compute_file_hashes(files, repo_path) ==
    [f \in Files |->
        IF repo_path # NoneVal /\ f \in files /\ disk[f] # Absent
        THEN compute_file_hash(disk[f])
        ELSE NoHash]

Upsert(c, id, meta) ==
    [i \in DOMAIN c \cup {id} |-> IF i = id THEN meta ELSE c[i]]
Delete(c, id) == [i \in DOMAIN c \ {id} |-> c[i]]

\* The document save_insight writes: its text and the metadata the
\* lifecycle reads or writes (title, tags, repository, branch, initiative
\* and validation_notes are left out).  0 stands for a missing timestamp,
\* commit or pointer.
InsightDoc(text, files, timestamp) ==
    [type |-> "insight", text |-> text, files |-> files,
     status |-> "active",
     created_at |-> timestamp, updated_at |-> timestamp,
     verified_at |-> timestamp,
     last_validation_result |-> NoneVal,
     deprecated_at |-> 0, deprecation_reason |-> NoneVal,
     superseded_by |-> 0,
     file_hashes |-> compute_file_hashes(files, get_repo_path),
     validated_commit |-> 0]

\* An insight stored by an earlier version, without created_at, and a note.
LegacyInsight ==
    [InsightDoc("insight", {"a.py", "b.py"}, 0) EXCEPT !.file_hashes = NoHashes]
NoteDoc ==
    [InsightDoc("note", {}, 0) EXCEPT !.type = "note", !.file_hashes = NoHashes]

\* save_insight on collection c: its response status and the collection
\* it leaves.  An empty files list is rejected and an exception of the
\* upsert stores nothing; the index rebuild after it is taken to succeed.
SaveStatus(files, outcome) ==
    IF files # {} /\ outcome = "ok" THEN "saved" ELSE "error"
\* Mutant: an empty files list is stored like any other.
SaveStored_empty_ok(files, outcome) == outcome # "upsert_raised"
SaveStored(files, outcome) == files # {} /\ outcome # "upsert_raised"
SaveResult(c, id, text, files, timestamp, outcome) ==
    IF SaveStored(files, outcome)
    THEN Upsert(c, id, InsightDoc(text, files, timestamp))
    ELSE c

SaveInsight ==
    \E text \in InsightTexts :
      \E files \in LinkedFilesChoices :
        \E outcome \in StoreOutcomes :
            /\ nextId <= MaxInsights
            /\ now <= MaxCalls
            /\ coll' = SaveResult(coll, nextId, text, files, now, outcome)
            /\ nextId' = IF SaveStored(files, outcome) THEN nextId + 1 ELSE nextId
            /\ now' = IF SaveStored(files, outcome) THEN now + 1 ELSE now
            /\ call' = NoCall
            /\ UNCHANGED <<varsFilter, varsSearcher, varsMore, varsIngest, head_commit>>

\* Mutant: any stored document is taken for an insight.
Found_any_type(insight_id) == insight_id \in DOMAIN coll
\* The document validate_insight fetched exists and is an insight.
Found(insight_id) ==
    insight_id \in DOMAIN coll /\ coll[insight_id].type = "insight"

\* Mutant: a still_valid result makes the insight active again.
Stamped_reactivating(meta, validation_result, timestamp) == [meta EXCEPT !.status = IF validation_result = "still_valid" THEN "active" ELSE @, !.last_validation_result = validation_result]

\* Mutant: the deprecate flag alone deprecates.
Deprecates_flag_only(validation_result, deprecate) == deprecate

\* validate_insight, "Handle deprecation".
Deprecates(validation_result, deprecate) ==
    validation_result = "no_longer_valid" /\ deprecate

\* validate_insight, "Update timestamps".
Stamped(meta, validation_result, timestamp) ==
    [meta EXCEPT !.verified_at = timestamp,
                 !.updated_at = timestamp,
                 !.last_validation_result = validation_result,
                 !.created_at = IF @ = 0 THEN timestamp ELSE @]

Deprecated(meta, notes, timestamp) ==
    [meta EXCEPT !.status = "deprecated",
                 !.deprecated_at = timestamp,
                 !.deprecation_reason =
                     IF notes # NoneVal THEN notes ELSE DefaultReason]

\* Mutant: still_valid keeps the stored hashes.
RefreshedHashes_kept(meta) == meta.file_hashes

\* validate_insight, "Refresh file hashes to current state".
RefreshedHashes(meta) ==
    LET new_hashes == compute_file_hashes(meta.files, get_repo_path)
    IN  IF meta.files # {} /\ get_repo_path # NoneVal /\ new_hashes # NoHashes
        THEN new_hashes
        ELSE meta.file_hashes

\* validate_insight, "Update commit reference for validation tracking".
RefreshedCommit(meta) ==
    LET current_commit == IF get_repo_path # NoneVal THEN get_head_commit ELSE 0
    IN  IF current_commit # 0 THEN current_commit ELSE meta.validated_commit

Refreshed(meta) ==
    [meta EXCEPT !.file_hashes = RefreshedHashes(meta),
                 !.validated_commit = RefreshedCommit(meta)]

\* The response status of validate_insight.
ValidateStatus(insight_id, outcome) ==
    IF Found(insight_id) /\ outcome = "ok" THEN "validated" ELSE "error"

\* One validate_insight call.  save_outcome is the fate of the nested
\* save_insight, outcome that of the final upsert.  A nested save is part
\* of the call and carries its timestamp.
validate_insight(insight_id, validation_result, notes, deprecate, replacement_insight, save_outcome, outcome) ==
    IF ~Found(insight_id)
    THEN /\ call' = [NoCall EXCEPT !.error_id = insight_id]
         /\ UNCHANGED <<varsFilter, varsSearcher, varsMore, varsIngest,
                        coll, nextId, now, head_commit>>
    ELSE
      LET timestamp == now
          meta0 == coll[insight_id]
          deprecating == Deprecates(validation_result, deprecate)
          replacing == deprecating /\ replacement_insight # NoneVal
          stored == replacing /\ SaveStored(meta0.files, save_outcome)
          saved == replacing /\ SaveStatus(meta0.files, save_outcome) = "saved"
          meta1 == Stamped(meta0, validation_result, timestamp)
          meta2 == IF deprecating THEN Deprecated(meta1, notes, timestamp) ELSE meta1
          meta3 == IF saved THEN [meta2 EXCEPT !.superseded_by = nextId] ELSE meta2
          meta4 == IF ~deprecating /\ validation_result = "still_valid"
                   THEN Refreshed(meta3) ELSE meta3
          coll1 == IF replacing
                   THEN SaveResult(coll, nextId, replacement_insight,
                                   meta0.files, timestamp, save_outcome)
                   ELSE coll
          written == outcome # "upsert_raised"
      IN  /\ now <= MaxCalls
          /\ replacing => nextId <= MaxInsights
          /\ coll' = IF written THEN Upsert(coll1, insight_id, meta4) ELSE coll1
          /\ nextId' = IF stored THEN nextId + 1 ELSE nextId
          /\ now' = IF stored \/ written THEN now + 1 ELSE now
          /\ call' = IF ValidateStatus(insight_id, outcome) = "validated"
                     THEN [NoCall EXCEPT !.insight_id = insight_id, !.deprecate = deprecate]
                     ELSE [NoCall EXCEPT !.raised_id = insight_id]
          /\ UNCHANGED <<varsFilter, varsSearcher, varsMore, varsIngest, head_commit>>

InsightIdChoices == 1..MaxInsights
ReplacementChoices == {NoneVal, ReplacementText}

\* notes and replacement_insight are read only by a deprecation, and the
\* nested save_insight runs only for a replacement: elsewhere one value
\* stands for all.
NotesFor(validation_result, deprecate) ==
    IF Deprecates(validation_result, deprecate) THEN NotesChoices ELSE {NoneVal}
ReplacementsFor(validation_result, deprecate) ==
    IF Deprecates(validation_result, deprecate)
    THEN ReplacementChoices ELSE {ReplacementText}
SaveOutcomes(validation_result, deprecate, replacement_insight) ==
    IF Deprecates(validation_result, deprecate) /\ replacement_insight # NoneVal
    THEN StoreOutcomes ELSE {"ok"}

\* A call that is refused reads none of its other arguments.
ResultsFor(insight_id) ==
    IF Found(insight_id) THEN ValidationResults ELSE {"still_valid"}
FlagsFor(insight_id) == IF Found(insight_id) THEN BOOLEAN ELSE {FALSE}
OutcomesFor(insight_id) == IF Found(insight_id) THEN StoreOutcomes ELSE {"ok"}

ValidateInsight ==
    \E insight_id \in InsightIdChoices :
      \E validation_result \in ResultsFor(insight_id) :
        \E deprecate \in FlagsFor(insight_id) :
          \E notes \in NotesFor(validation_result, deprecate) :
            \E replacement_insight \in ReplacementsFor(validation_result, deprecate) :
              \E save_outcome \in SaveOutcomes(validation_result, deprecate,
                                               replacement_insight) :
                \E outcome \in OutcomesFor(insight_id) :
                    validate_insight(insight_id, validation_result, notes,
                                     deprecate, replacement_insight,
                                     save_outcome, outcome)

\* delete_document of the storage layer: the document is looked up and,
\* when found, deleted by id.
delete_document ==
    \E document_id \in InsightIdChoices :
        /\ document_id \in DOMAIN coll
        /\ coll' = Delete(coll, document_id)
        /\ call' = NoCall
        /\ UNCHANGED <<varsFilter, varsSearcher, varsMore, varsIngest, nextId, now, head_commit>>

\* git commit: HEAD moves to a new commit.
git_commit ==
    /\ git
    /\ head_commit < MaxCommits
    /\ head_commit' = head_commit + 1
    /\ call' = NoCall
    /\ UNCHANGED <<varsFilter, varsSearcher, varsMore, varsIngest, coll, nextId, now>>

\* Staleness: some current on-disk hash of a linked file differs from the
\* stored one.
IsStale(meta) ==
    LET current == compute_file_hashes(meta.files, get_repo_path)
    IN  \E f \in Files : current[f] # NoHash /\ current[f] # meta.file_hashes[f]

EmptyColl == [i \in {} |-> NoteDoc]
StoredBefore == {EmptyColl, Upsert(EmptyColl, 1, LegacyInsight), Upsert(EmptyColl, 1, NoteDoc)}

InitInsight(collChoices) ==
    /\ coll \in collChoices
    /\ nextId = Cardinality(DOMAIN coll) + 1
    /\ now = nextId
    /\ head_commit = 0
    /\ call = NoCall

\* A store in which insight 1 was deprecated and replaced by insight 2 in
\* an earlier run of the server, at time 1.
SupersededPair ==
    LET old == [LegacyInsight EXCEPT !.status = "deprecated",
                                     !.last_validation_result = "no_longer_valid",
                                     !.created_at = 1, !.updated_at = 1, !.verified_at = 1,
                                     !.deprecated_at = 1,
                                     !.deprecation_reason = DefaultReason,
                                     !.superseded_by = 2]
        new == [LegacyInsight EXCEPT !.text = ReplacementText,
                                     !.created_at = 1, !.updated_at = 1, !.verified_at = 1]
    IN  Upsert(Upsert(EmptyColl, 1, old), 2, new)

InitSuperseded ==
    /\ coll = SupersededPair
    /\ nextId = 3
    /\ now = 2
    /\ head_commit = 0
    /\ call = NoCall

NextInsight ==
    \/ SaveInsight
    \/ ValidateInsight
    \/ delete_document
    \/ WriteFile
    \/ DeleteFile
    \/ git_commit

(***************************************************************************)
(* SpecCapture: the session-capture queue -- enqueue with dedup, the       *)
(* single worker, synchronous processing -- around process_session         *)
(***************************************************************************)
MaxSessions == 2
Sessions == 1..MaxSessions

\* What can happen inside one process_session call, in the order of the
\* code: the transcript is empty; get_provider returns None or raises;
\* summarize_session raises or returns an empty summary; conclude_session
\* raises, catches a failed upsert, catches a failed index rebuild after the
\* upsert, or saves.
Outcomes ==
    {"empty_transcript", "no_provider", "provider_raised", "summarize_raised",
     "empty_summary", "save_raised", "upsert_raised", "build_index_raised", "saved"}

NoResult == [success |-> FALSE, error |-> "not processed"]
ProcessingResult(success, error) == [success |-> success, error |-> error]

\* summarize_session is invoked once the provider is there.
InvokesLLM(outcome) ==
    outcome \notin {"empty_transcript", "no_provider", "provider_raised"}

\* Mutant: an empty summary is saved as a placeholder.
Summarized_placeholder(outcome) ==
    outcome \in {"empty_summary", "save_raised", "upsert_raised", "build_index_raised", "saved"}
\* conclude_session is reached with a real summary.
Summarized(outcome) ==
    outcome \in {"save_raised", "upsert_raised", "build_index_raised", "saved"}

\* conclude_session upserts one session_summary document under a fresh id.
Upserted(outcome) ==
    Summarized(outcome) /\ outcome \in {"empty_summary", "build_index_raised", "saved"}

\* The ProcessingResult process_session returns.  conclude_session turns
\* the exceptions of its try block into an error response, which
\* process_session does not read.
process_session(outcome) ==
    CASE outcome = "empty_transcript" -> ProcessingResult(TRUE, "empty_transcript")
      [] outcome = "no_provider" -> ProcessingResult(FALSE, "No LLM provider available")
      [] outcome = "provider_raised" -> ProcessingResult(FALSE, "No LLM provider")
      [] outcome = "summarize_raised" -> ProcessingResult(FALSE, "Summarization failed")
      [] outcome = "empty_summary" ->
            IF Summarized(outcome) THEN ProcessingResult(TRUE, NoneVal)
            ELSE ProcessingResult(FALSE, "Summarization returned empty result")
      [] outcome = "save_raised" -> ProcessingResult(FALSE, "Save failed")
      [] OTHER -> ProcessingResult(TRUE, NoneVal)

\* The effect of one process_session call for session_id.
Processed(session_id, outcome) ==
    /\ llm_calls' = [llm_calls EXCEPT ![session_id] = @ + (IF InvokesLLM(outcome) THEN 1 ELSE 0)]
    /\ summaries' = [summaries EXCEPT ![session_id] = @ + (IF Upserted(outcome) THEN 1 ELSE 0)]
    /\ presult' = [presult EXCEPT ![session_id] = process_session(outcome)]
    /\ happened' = [happened EXCEPT ![session_id] = outcome]

\* Mutant: no job is ever taken for a duplicate.
Duplicate_never(session_id) == FALSE
\* Dedup: a job record with this session id is already persisted.
Duplicate(session_id) == session_id \in fingerprints

\* A hook submits a session in async mode: the job is made durable and
\* queued, or dropped as a duplicate; the caller returns at once.
enqueue ==
    \E session_id \in Sessions :
        /\ IF Duplicate(session_id)
           THEN UNCHANGED <<capture_queue, fingerprints>>
           ELSE /\ capture_queue' = Append(capture_queue, session_id)
                /\ fingerprints' = fingerprints \cup {session_id}
        /\ UNCHANGED <<llm_calls, summaries, presult, happened>>
        /\ UNCHANGED <<varsCore, varsMigrate, varsFusion, varsScore>>

\* The single worker takes the oldest job, processes it and marks it
\* complete; a failed job is logged and dropped like a finished one.
worker ==
    /\ capture_queue # <<>>
    /\ \E outcome \in Outcomes : Processed(Head(capture_queue), outcome)
    /\ capture_queue' = Tail(capture_queue)
    /\ UNCHANGED fingerprints
    /\ UNCHANGED <<varsCore, varsMigrate, varsFusion, varsScore>>

\* A session submitted in sync mode: after the same dedup the caller
\* processes the job itself and waits for the result.
process_sync ==
    \E session_id \in Sessions :
        /\ IF Duplicate(session_id)
           THEN UNCHANGED <<fingerprints, llm_calls, summaries, presult, happened>>
           ELSE /\ fingerprints' = fingerprints \cup {session_id}
                /\ \E outcome \in Outcomes : Processed(session_id, outcome)
        /\ UNCHANGED capture_queue
        /\ UNCHANGED <<varsCore, varsMigrate, varsFusion, varsScore>>

InitCapture ==
    /\ capture_queue = <<>>
    /\ fingerprints = {}
    /\ llm_calls = [s \in Sessions |-> 0]
    /\ summaries = [s \in Sessions |-> 0]
    /\ presult = [s \in Sessions |-> NoResult]
    /\ happened = [s \in Sessions |-> NoneVal]

(***************************************************************************)
(* SpecMigrate: run_migrations over the registered migrations and the      *)
(* persisted schema version (migrations/runner.py)                         *)
(***************************************************************************)
\* The registry lists one migration per version, oldest first; the code
\* registers version 1 and leaves room for later ones.
MaxVersion == 3
SCHEMA_VERSION == MaxVersion
get_migrations == [i \in 1..MaxVersion |-> i]

\* pending = [(v, desc, fn) for v, desc, fn in migrations if v > current]
\* Mutant: the migration of the current version is pending again.
Pending_inclusive(current) == SelectSeq(get_migrations, LAMBDA v : v >= current)
Pending(current) == SelectSeq(get_migrations, LAMBDA v : v > current)

\* Mutant: a dry run applies the migrations.
Applies_dry_run(dry_run) == TRUE
Applies(dry_run) == ~dry_run

\* from_version: an override of the starting version, or None.
NoVersion == 0 - 1
FromVersionChoices == {NoVersion} \cup (0..MaxVersion)
MigrationOutcomes == {"success", "migration_raised", "save_raised"}

NoRunYet ==
    [pc |-> "idle", started |-> 0, current |-> 0, dry_run |-> FALSE,
     pending |-> <<>>, results |-> <<>>, final_version |-> 0]
NoReport == [status |-> NoneVal, current_version |-> 0, migrations_run |-> 0]

Succeeded(results) == SelectSeq(results, LAMBDA r : r.status = "success")

\* run_migrations up to the loop: the starting version, the pending list,
\* and the early return when nothing is pending.
run_migrations ==
    \E from_version \in FromVersionChoices : \E dry_run \in BOOLEAN :
        LET current == IF from_version # NoVersion THEN from_version ELSE schema_version
            pending == Pending(current)
        IN  /\ migration_run.pc = "idle"
            /\ migration_run' =
                  [pc |-> IF pending = <<>> THEN "idle" ELSE "loop",
                   started |-> schema_version, current |-> current, dry_run |-> dry_run,
                   pending |-> pending, results |-> <<>>, final_version |-> current]
            /\ migration_report' =
                  IF pending = <<>>
                  THEN [status |-> "up_to_date", current_version |-> current, migrations_run |-> 0]
                  ELSE NoReport
            /\ UNCHANGED <<schema_version, varsCore, varsCapture, varsFusion, varsScore>>

\* One iteration of the loop over the pending migrations.
migration_step ==
    /\ migration_run.pc = "loop"
    /\ migration_run.pending # <<>>
    /\ LET version == Head(migration_run.pending)
       IN  IF ~Applies(migration_run.dry_run)
           THEN /\ migration_run' =
                     [migration_run EXCEPT
                        !.results = Append(@, [version |-> version, status |-> "dry_run"]),
                        !.pending = Tail(@)]
                /\ UNCHANGED schema_version
           ELSE \E outcome \in MigrationOutcomes :
                  IF outcome = "success"
                  THEN /\ schema_version' = version
                       /\ migration_run' =
                            [migration_run EXCEPT
                               !.results = Append(@, [version |-> version, status |-> "success"]),
                               !.final_version = version,
                               !.pending = Tail(@)]
                  ELSE /\ UNCHANGED schema_version
                       /\ migration_run' =
                            [migration_run EXCEPT
                               !.results = Append(@, [version |-> version, status |-> "failed"]),
                               !.pending = <<>>]
    /\ UNCHANGED <<migration_report, varsCore, varsCapture, varsFusion, varsScore>>

\* The return after the loop.
migration_return ==
    /\ migration_run.pc = "loop"
    /\ migration_run.pending = <<>>
    /\ migration_run' = [migration_run EXCEPT !.pc = "idle"]
    /\ migration_report' =
          [status |-> IF migration_run.final_version = SCHEMA_VERSION
                      THEN "complete" ELSE "partial",
           current_version |-> migration_run.final_version,
           migrations_run |-> Len(Succeeded(migration_run.results))]
    /\ UNCHANGED <<schema_version, varsCore, varsCapture, varsFusion, varsScore>>

InitMigrate ==
    /\ schema_version \in 0..MaxVersion
    /\ migration_run = NoRunYet
    /\ migration_report = NoReport

NextMigrate == run_migrations \/ migration_step \/ migration_return


(***************************************************************************)
(* SpecFusion: reciprocal_rank_fusion of the vector and the lexical hit    *)
(* lists                                                                   *)
(***************************************************************************)
MaxResults == 3
DocIds == 1..MaxResults
RRF_K == 60

\* The hit lists: up to MaxResults document ids, none twice.
HitLists ==
    {l \in UNION {[1..n -> DocIds] : n \in 0..MaxResults} :
        \A i, j \in DOMAIN l : i # j => l[i] # l[j]}

\* Scores are exact fractions over one denominator: ScoreUnit stands for 1.
RECURSIVE RankProduct(_)
RankProduct(r) == IF r = 0 THEN RRF_K ELSE (RRF_K + r) * RankProduct(r - 1)
ScoreUnit == RankProduct(MaxResults)

\* The 1-indexed rank of id in list, 0 when it is not there.
RankIn(list, id) ==
    IF \E i \in DOMAIN list : list[i] = id
    THEN CHOOSE i \in DOMAIN list : list[i] = id
    ELSE 0

\* Mutant: ranks count from 0.
Contribution_zero_indexed(rank) ==
    IF rank = 0 THEN 0 ELSE ScoreUnit \div (RRF_K + rank - 1)
\* 1 / (k + r) for a document at rank r of one list.
Contribution(rank) == IF rank = 0 THEN 0 ELSE ScoreUnit \div (RRF_K + rank)

\* Higher rrf_score first, the lower id first among equals.
RanksBefore(a, b) ==
    a.rrf_score > b.rrf_score \/ (a.rrf_score = b.rrf_score /\ a.id < b.id)

RECURSIVE SortedByRRF(_)
SortedByRRF(entries) ==
    IF entries = {} THEN <<>>
    ELSE LET first == CHOOSE e \in entries : \A o \in entries \ {e} : RanksBefore(e, o)
         IN  <<first>> \o SortedByRRF(entries \ {first})

reciprocal_rank_fusion(vector, bm25) ==
    LET ids == {vector[i] : i \in DOMAIN vector} \cup {bm25[i] : i \in DOMAIN bm25}
        entry(id) ==
            [id |-> id,
             vector_rank |-> RankIn(vector, id),
             bm25_rank |-> RankIn(bm25, id),
             rrf_score |-> Contribution(RankIn(vector, id)) + Contribution(RankIn(bm25, id))]
    IN  SortedByRRF({entry(id) : id \in ids})

NotFused == <<[id |-> 0, vector_rank |-> 0, bm25_rank |-> 0, rrf_score |-> 0]>>

fuse ==
    /\ fused = NotFused
    /\ fused' = reciprocal_rank_fusion(vector_results, bm25_results)
    /\ UNCHANGED <<vector_results, bm25_results, varsCore, varsCapture, varsMigrate, varsScore>>

InitFusion ==
    /\ vector_results \in HitLists
    /\ bm25_results \in HitLists
    /\ fused = NotFused

NextFusion == fuse

(***************************************************************************)
(* SpecScore: the scoring tail of search_cortex -- recency boost and the   *)
(* min_score threshold over the reranked candidates -- and                 *)
(* apply_recency_boost on its own                                          *)
(***************************************************************************)
MaxHits == 2
MaxAge == 2

\* Scores and boosts are in thousandths: ScoreOne stands for 1.0.
ScoreOne == 1000
RerankScores == {400, 800}
ScoredTypes == {"note", "session_summary", "insight", "dependency"}

\* Mutant: every type decays.
RECENCY_BOOSTED_TYPES_every_type == ScoredTypes
RECENCY_BOOSTED_TYPES == {"note", "session_summary"}

\* TYPE_MULTIPLIERS, in tenths.
TYPE_MULTIPLIERS ==
    [t \in ALL_DOCUMENT_TYPES |->
        CASE t = "insight" -> 20
          [] t \in {"note", "session_summary"} -> 15
          [] t = "entry_point" -> 14
          [] t \in {"file_metadata", "data_contract", "idiom"} -> 13
          [] t = "tech_stack" -> 12
          [] OTHER -> 10]

\* A reranked candidate; age is now - created_at in half-lives.
Hits == [type : ScoredTypes, rerank_score : RerankScores, age : 0..MaxAge]

\* The reranker returns its top candidates, best rerank_score first.
RerankedLists ==
    {l \in UNION {[1..n -> Hits] : n \in 1..MaxHits} :
        \A i, j \in DOMAIN l : i < j => l[i].rerank_score >= l[j].rerank_score}

\* min_score: the per-call argument, or None.
NoScore == 0 - 1
MinScoreArgs == {NoScore, 300}
MinBoosts == {100, 500}
Scorings ==
    [recency_boost : BOOLEAN, config_min_score : {500}, min_score : MinScoreArgs,
     min_boost : MinBoosts]

RECURSIVE Halved(_)
Halved(age) == IF age = 0 THEN ScoreOne ELSE Halved(age - 1) \div 2

MaxOf(a, b) == IF a >= b THEN a ELSE b

Decays(type) == type \in RECENCY_BOOSTED_TYPES

\* boost = max(min_boost, 0.5^(age_days / half_life_days)) for the boosted
\* types, 1.0 for the others.
RecencyBoost(hit, min_boost) ==
    IF Decays(hit.type) THEN MaxOf(min_boost, Halved(hit.age)) ELSE ScoreOne

BoostedHit(hit, position, min_boost) ==
    [type |-> hit.type, rerank_score |-> hit.rerank_score, age |-> hit.age,
     position |-> position,
     recency_boost |-> RecencyBoost(hit, min_boost),
     boosted_score |-> (hit.rerank_score * RecencyBoost(hit, min_boost)) \div ScoreOne]

\* Higher boosted_score first; equal scores keep their input order.
BoostedBefore(a, b) ==
    a.boosted_score > b.boosted_score
        \/ (a.boosted_score = b.boosted_score /\ a.position < b.position)

RECURSIVE SortedByBoost(_)
SortedByBoost(entries) ==
    IF entries = {} THEN <<>>
    ELSE LET first == CHOOSE e \in entries : \A o \in entries \ {e} : BoostedBefore(e, o)
         IN  <<first>> \o SortedByBoost(entries \ {first})

apply_recency_boost(results, min_boost) ==
    SortedByBoost({BoostedHit(results[i], i, min_boost) : i \in DOMAIN results})

\* Without the recency stage the candidates keep their rerank_score.
Unboosted(results) ==
    [i \in DOMAIN results |->
        [type |-> results[i].type, rerank_score |-> results[i].rerank_score,
         age |-> results[i].age, position |-> i,
         recency_boost |-> ScoreOne, boosted_score |-> results[i].rerank_score]]

\* threshold = min_score if min_score is not None else CONFIG["min_score"]
Threshold(s) == IF s.min_score # NoScore THEN s.min_score ELSE s.config_min_score

\* search_cortex from the reranked candidates on: the recency boost when
\* CONFIG enables it, then the threshold on the score of that stage.
Filtered(results, s) ==
    LET staged == IF s.recency_boost
                  THEN apply_recency_boost(results, s.min_boost)
                  ELSE Unboosted(results)
    IN  SelectSeq(staged, LAMBDA r : r.boosted_score >= Threshold(s))

search_cortex_scoring ==
    /\ score_pc = "input"
    /\ filtered' = Filtered(reranked, scoring)
    /\ score_pc' = "searched"
    /\ UNCHANGED <<reranked, scoring, boosted, varsCore, varsCapture, varsMigrate, varsFusion>>

recency_boost ==
    /\ score_pc = "input"
    /\ boosted' = apply_recency_boost(reranked, scoring.min_boost)
    /\ score_pc' = "boosted"
    /\ UNCHANGED <<reranked, scoring, filtered, varsCore, varsCapture, varsMigrate, varsFusion>>

InitScore ==
    /\ reranked \in RerankedLists
    /\ scoring \in Scorings
    /\ boosted = <<>>
    /\ filtered = <<>>
    /\ score_pc = "input"

NextScore == search_cortex_scoring \/ recency_boost

----------------------------------------------------------------------------
\* Singleton documents: the skeleton of a (repository, branch) and the
\* tech_stack of a repository.

MaxTexts == 2
Repos == {"app", "lib"}
Branches == {"main", "dev"}
\* Tree outputs and tech stack descriptions, by version.
Texts == 1..MaxTexts

\* "<project>:skeleton:<branch>"
SkeletonId(project_id, branch) == <<project_id, "skeleton", branch>>

\* "<repository>:tech_stack"
TechStackId(repository) == <<repository, "tech_stack">>

\* Mutant: the write adds a document and keeps the one stored under the id.
CollectionUpsert_add(c, doc) == c \cup {doc}
\* collection.upsert: the document replaces the one stored under its id.
CollectionUpsert(c, doc) == {d \in c : d.id # doc.id} \cup {doc}

HasId(c, id) == \E d \in c : d.id = id

store_skeleton(project_id, branch, tree_output) ==
    LET doc == [id |-> SkeletonId(project_id, branch), type |-> "skeleton",
                repository |-> project_id, branch |-> branch, text |-> tree_output]
    IN /\ repo_docs' = CollectionUpsert(repo_docs, doc)
       /\ rewrote' = HasId(repo_docs, doc.id)

set_tech_stack(repository, current_branch, tech_stack) ==
    LET doc == [id |-> TechStackId(repository), type |-> "tech_stack",
                repository |-> repository, branch |-> current_branch, text |-> tech_stack]
    IN /\ repo_docs' = CollectionUpsert(repo_docs, doc)
       /\ rewrote' = HasId(repo_docs, doc.id)

\* An ingestion of a repository at a branch ends by storing its skeleton.
StoreSkeleton ==
    /\ \E project_id \in Repos, branch \in Branches, tree_output \in Texts :
           store_skeleton(project_id, branch, tree_output)
    /\ UNCHANGED <<varsEarly, varsButDocs>>

SetTechStack ==
    /\ \E repository \in Repos, current_branch \in Branches, tech_stack \in Texts :
           set_tech_stack(repository, current_branch, tech_stack)
    /\ UNCHANGED <<varsEarly, varsButDocs>>

InitDocs == repo_docs = {} /\ rewrote = FALSE

NextSingleton == StoreSkeleton \/ SetTechStack

----------------------------------------------------------------------------
\* The runtime configuration and configure_cortex.  An optional argument is a
\* sequence: <<>> is None, <<v>> is the value v.  min_score is in tenths and
\* recency_half_life_days in half days, so that the inputs of the tests
\* (1.5, -0.5, 0.5 days) are whole numbers.

VALID_LLM_PROVIDERS == {"anthropic", "claude-cli", "ollama", "openrouter", "none"}

Optional(values) == {<<>>} \cup {<<v>> : v \in values}

MinScoreInputs == Optional({0 - 5, 7, 15})
TopKRetrieveInputs == Optional({5, 500})
TopKRerankInputs == Optional({0, 100})
HalfLifeInputs == Optional({1, 1000})
ProviderInputs == Optional({"ollama", "invalid_provider"})

DefaultConfig ==
    [min_score |-> 5, top_k_retrieve |-> 50, top_k_rerank |-> 10,
     recency_half_life_days |-> 60, llm_provider |-> "anthropic"]

NotConfigured ==
    [min_score |-> <<>>, top_k_retrieve |-> <<>>, top_k_rerank |-> <<>>,
     recency_half_life_days |-> <<>>, llm_provider |-> <<>>,
     status |-> "none", changes |-> {}]

\* Mutant: the value is stored as given.
Clamp_as_given(lo, hi, v) == v
\* max(lo, min(hi, v))
Clamp(lo, hi, v) == LET m == IF v < hi THEN v ELSE hi IN IF m > lo THEN m ELSE lo

\* A numeric setting: stored clamped when the argument is given.
Setting(old, arg, lo, hi) == IF arg = <<>> THEN old ELSE Clamp(lo, hi, arg[1])

ProviderSetting(old, arg) ==
    IF arg # <<>> /\ arg[1] \in VALID_LLM_PROVIDERS THEN arg[1] ELSE old

Named(name, given) == IF given THEN {name} ELSE {}

Changes(min_score, top_k_retrieve, top_k_rerank, recency_half_life_days, llm_provider) ==
    Named("min_score", min_score # <<>>)
    \cup Named("top_k_retrieve", top_k_retrieve # <<>>)
    \cup Named("top_k_rerank", top_k_rerank # <<>>)
    \cup Named("recency_half_life_days", recency_half_life_days # <<>>)
    \cup Named("llm_provider", llm_provider # <<>> /\ llm_provider[1] \in VALID_LLM_PROVIDERS)

configure_cortex(min_score, top_k_retrieve, top_k_rerank, recency_half_life_days, llm_provider) ==
    /\ CONFIG' =
         [min_score |-> Setting(CONFIG.min_score, min_score, 0, 10),
          top_k_retrieve |-> Setting(CONFIG.top_k_retrieve, top_k_retrieve, 10, 200),
          top_k_rerank |-> Setting(CONFIG.top_k_rerank, top_k_rerank, 1, 50),
          recency_half_life_days |-> Setting(CONFIG.recency_half_life_days, recency_half_life_days, 2, 730),
          llm_provider |-> ProviderSetting(CONFIG.llm_provider, llm_provider)]
    /\ configure_call' =
         [min_score |-> min_score, top_k_retrieve |-> top_k_retrieve,
          top_k_rerank |-> top_k_rerank,
          recency_half_life_days |-> recency_half_life_days,
          llm_provider |-> llm_provider, status |-> "configured",
          changes |-> Changes(min_score, top_k_retrieve, top_k_rerank, recency_half_life_days, llm_provider)]

Configure ==
    /\ \E min_score \in MinScoreInputs, top_k_retrieve \in TopKRetrieveInputs,
          top_k_rerank \in TopKRerankInputs, recency_half_life_days \in HalfLifeInputs,
          llm_provider \in ProviderInputs :
           configure_cortex(min_score, top_k_retrieve, top_k_rerank, recency_half_life_days, llm_provider)
    /\ UNCHANGED <<varsEarly, varsButConfig>>

InitConfig == CONFIG = DefaultConfig /\ configure_call = NotConfigured

NextConfigure == Configure

----------------------------------------------------------------------------
\* The tools/call endpoint.  The arguments of a request are a dict from
\* field names to values; a value is modelled by its kind: a text that is not
\* a number, a number, or None.

ToolFields == {"query", "min_score", "repository"}
ValueKinds == {"str", "num", "none"}

\* Two tools of the registry with their input models: the fields, their
\* types and whether a field is required.
SearchCortexInput ==
    [fields |-> [query |-> "str", min_score |-> "num", repository |-> "str"],
     required |-> {"query"}]

GetSkeletonInput ==
    [fields |-> [repository |-> "str"], required |-> {}]

tool_registry ==
    [search_cortex |-> SearchCortexInput, get_skeleton |-> GetSkeletonInput]

ToolNames == DOMAIN tool_registry \cup {"unknown_tool"}

\* Every dict over the fields.
ArgumentDicts ==
    UNION {[given -> ValueKinds] : given \in SUBSET ToolFields}

\* input_model.model_validate: every required field is present, every field
\* of the model that is present has the declared type, None only where the
\* field is optional; a field the model does not declare is ignored.
model_validate(input_model, arguments) ==
    /\ input_model.required \subseteq DOMAIN arguments
    /\ \A f \in DOMAIN arguments \cap DOMAIN input_model.fields :
           \/ arguments[f] = input_model.fields[f]
           \/ arguments[f] = "none" /\ f \notin input_model.required

\* validated.model_dump(exclude_none=True)
model_dump(input_model, arguments) ==
    [f \in {g \in DOMAIN arguments \cap DOMAIN input_model.fields : arguments[g] # "none"}
        |-> arguments[f]]

\* What the handler does when it is called.
HandlerOutcomes == {"returns", "raises", "raises_validation_error"}

\* Mutant: only a ValidationError is caught.
Caught_validation_only(outcome) == outcome = "raises_validation_error"
\* except ValidationError ... except Exception
Caught(outcome) == outcome \in {"raises", "raises_validation_error"}

NoToolCall ==
    [name |-> "", arguments |-> <<>>, invoked |-> <<>>, passed |-> <<>>,
     isError |-> FALSE, content |-> "none", raised |-> FALSE]

mcp_call_tool(name, arguments, outcome) ==
    LET request == [NoToolCall EXCEPT !.name = name, !.arguments = arguments]
    IN IF name \notin DOMAIN tool_registry
       THEN [request EXCEPT !.isError = TRUE, !.content = "unknown_tool"]
       ELSE IF ~model_validate(tool_registry[name], arguments)
       THEN [request EXCEPT !.isError = TRUE, !.content = "invalid_arguments"]
       ELSE LET called == [request EXCEPT !.invoked = <<name>>,
                                          !.passed = <<model_dump(tool_registry[name], arguments)>>]
            IN IF outcome = "returns"
               THEN [called EXCEPT !.content = "result"]
               ELSE IF ~Caught(outcome)
               THEN [called EXCEPT !.raised = TRUE]
               ELSE IF outcome = "raises_validation_error"
               THEN [called EXCEPT !.isError = TRUE, !.content = "invalid_arguments"]
               ELSE [called EXCEPT !.isError = TRUE, !.content = "error"]

\* The handler runs only for a known tool with valid arguments.
OutcomesOf(name, arguments) ==
    IF name \in DOMAIN tool_registry /\ model_validate(tool_registry[name], arguments)
    THEN HandlerOutcomes ELSE {"returns"}

McpCallTool ==
    /\ \E name \in ToolNames, arguments \in ArgumentDicts :
         \E outcome \in OutcomesOf(name, arguments) :
           mcp_call' = mcp_call_tool(name, arguments, outcome)
    /\ UNCHANGED <<varsEarly, varsButMcp>>

InitMcp == mcp_call = NoToolCall

NextMcp == McpCallTool

----------------------------------------------------------------------------
\* migration_002_commit_to_session_summary over a collection with legacy
\* documents.  A document id is the sequence of its parts: "commit:a" is
\* <<"commit", "a">>.

Suffixes == {"a", "b"}
LegacyIds ==
    {<<"commit", x>> : x \in Suffixes} \cup {<<"session_summary", x>> : x \in Suffixes}
        \cup {<<"note", "a">>}

\* The document stored under an id: its type is the id's prefix, its
\* embedding is made from its text, the repository stands for the rest of
\* the metadata.
LegacyDoc(id, text) ==
    [type |-> id[1], text |-> text, embedding |-> <<text>>, repository |-> "app"]

LegacyCollections ==
    UNION {{[id \in present |-> LegacyDoc(id, texts[id])] : texts \in [present -> Texts]}
               : present \in SUBSET LegacyIds}

\* doc_id[7:] after "commit:", the whole id otherwise
NewId(doc_id) ==
    IF doc_id[1] = "commit" THEN <<"session_summary">> \o Tail(doc_id)
    ELSE <<"session_summary">> \o doc_id

CommitIds(c) == {id \in DOMAIN c : c[id].type = "commit"}

\* The new id already exists: the document is counted as migrated and left.
Skipped(c) == {id \in CommitIds(c) : NewId(id) \in DOMAIN c}

\* collection.delete(ids=[doc_id])
DeleteIds(c, ids) == [id \in DOMAIN c \ ids |-> c[id]]

\* collection.add under the new id with the type rewritten.
AddRenamed(c, old, ids) ==
    [id \in DOMAIN c \cup {NewId(x) : x \in ids} |->
        IF id \in DOMAIN c THEN c[id]
        ELSE LET x == CHOOSE x \in ids : NewId(x) = id
             IN [old[x] EXCEPT !.type = "session_summary"]]

\* Mutant: the documents are added under the new id and the old ones kept.
Renamed_keeping_old(c, ids) == AddRenamed(c, c, ids)
\* Delete and add of the documents ids.
Renamed(c, ids) == AddRenamed(DeleteIds(c, ids), c, ids)

CommitOutcomes == {"ok", "get_raised", "add_raised"}

NoCommitRun == [returned |-> "none", before |-> <<>>, outcome |-> "none"]

\* One call.  A failing query is caught and the call returns (lines 41-49);
\* a failing add propagates after the delete: failed_at is the document
\* whose add failed and done the documents migrated before it.
migration_002_commit_to_session_summary(outcome, failed_at, done) ==
    LET todo == CommitIds(legacy_coll) \ Skipped(legacy_coll)
        ran == [returned |-> "normal", before |-> legacy_coll, outcome |-> outcome]
    IN \/ /\ outcome = "get_raised"
          /\ legacy_coll' = legacy_coll
          /\ commit_run' = ran
       \/ /\ outcome = "ok"
          /\ legacy_coll' = Renamed(legacy_coll, todo)
          /\ commit_run' = ran
       \/ /\ outcome = "add_raised"
          /\ failed_at \in todo /\ done \subseteq todo \ {failed_at}
          /\ legacy_coll' = DeleteIds(Renamed(legacy_coll, done), {failed_at})
          /\ commit_run' = [ran EXCEPT !.returned = "raised"]

Migration002 ==
    /\ \E outcome \in CommitOutcomes :
         \E failed_at \in (IF outcome = "add_raised" THEN CommitIds(legacy_coll) ELSE {<<>>}) :
           \E done \in (IF outcome = "add_raised" THEN SUBSET CommitIds(legacy_coll) ELSE {{}}) :
             migration_002_commit_to_session_summary(outcome, failed_at, done)
    /\ UNCHANGED <<varsEarly, varsButCommit>>

InitCommit == legacy_coll \in LegacyCollections /\ commit_run = NoCommitRun

InitCommitRest == legacy_coll = <<>> /\ commit_run = NoCommitRun

NextCommit == Migration002

----------------------------------------------------------------------------
\* The document text of save_note, save_insight and conclude_session.  A text
\* is a sequence of tokens: a plain word, a token that matches a secret rule,
\* the replacement of a rule, or a piece of the fixed text a save adds.

MaxLen == 2
PlainWord == "word"
SecretToken == "sk-ant-key"
Redacted == "[REDACTED]"
InputTokens == {PlainWord, SecretToken}

TextsUpTo(n) == UNION {[1..k -> InputTokens] : k \in 0..n}
InputTexts == TextsUpTo(MaxLen) \ {<<>>}
\* title is Optional[str]: <<>> stands for None.
TitleInputs == TextsUpTo(1)
\* A list of paths, each path one token.
FileLists == TextsUpTo(MaxLen)

\* Every match of a rule is replaced.
scrub_secrets(text) ==
    [i \in 1..Len(text) |-> IF text[i] = SecretToken THEN Redacted ELSE text[i]]

\* f"{title}\n\n" if title else ""
TitleLine(title) == IF title # <<>> THEN title \o <<"\n\n">> ELSE <<>>

\* ', '.join(files)
Joined(files) == files

NoteText(title, content) == TitleLine(title) \o scrub_secrets(content)

InsightText(title, insight, files) ==
    TitleLine(title) \o scrub_secrets(insight) \o <<"\n\nLinked files: ">> \o Joined(files)

SummaryText(summary, changed_files) ==
    <<"Session Summary:\n\n">> \o scrub_secrets(summary)
        \o <<"\n\nChanged files: ">> \o Joined(changed_files)

NothingStored == [op |-> "none", text |-> <<>>, inputs |-> <<>>]

ScrubSaveNote ==
    /\ \E title \in TitleInputs, content \in InputTexts :
         stored_text' = [op |-> "save_note", text |-> NoteText(title, content),
                         inputs |-> <<title, content>>]
    /\ UNCHANGED <<varsEarly, varsButScrub>>

ScrubSaveInsight ==
    /\ \E title \in TitleInputs, insight \in InputTexts, files \in FileLists \ {<<>>} :
         stored_text' = [op |-> "save_insight", text |-> InsightText(title, insight, files),
                         inputs |-> <<title, insight, files>>]
    /\ UNCHANGED <<varsEarly, varsButScrub>>

ScrubConcludeSession ==
    /\ \E summary \in InputTexts, changed_files \in FileLists :
         stored_text' = [op |-> "conclude_session", text |-> SummaryText(summary, changed_files),
                         inputs |-> <<summary, changed_files>>]
    /\ UNCHANGED <<varsEarly, varsButScrub>>

InitScrub == stored_text = NothingStored

NextScrub == ScrubSaveNote \/ ScrubSaveInsight \/ ScrubConcludeSession

----------------------------------------------------------------------------
\* get_git_changed_files.  A line of the diff is the sequence of its
\* tab-separated parts; the status part is its letter and, for a rename, the
\* similarity score.

MaxEntries == 2
DiffPaths == {"a.py", "b.py", "c.py"}
Status(letter, score) == [letter |-> letter, score |-> score]
PlainStatuses == {Status(l, "") : l \in {"A", "M", "T", "D"}}
RenameStatuses == {Status("R", sc) : sc \in {"100", "090"}}

DiffLines ==
    {<<st, p>> : st \in PlainStatuses, p \in DiffPaths}
        \cup {<<st, pair[1], pair[2]>> :
                  st \in RenameStatuses, pair \in {q \in DiffPaths \X DiffPaths : q[1] # q[2]}}

PathsOf(line) == {line[i] : i \in 2..Len(line)}

\* git names a path in one line of a diff only.
Disjoint(lines) ==
    \A i, j \in 1..Len(lines) : i # j => PathsOf(lines[i]) \cap PathsOf(lines[j]) = {}

Diffs == {lines \in UNION {[1..n -> DiffLines] : n \in 0..MaxEntries} : Disjoint(lines)}

\* os.path.join(path, name)
Join(name) == <<"/repo", name>>

\* Mutant: a type change is not a modification.
IsModification_no_T(status) == status.letter \in {"A", "M"}
\* status in ("A", "M", "T")
IsModification(status) == status.letter \in {"A", "M", "T"}

ModifiedOf(line) ==
    IF line[1].letter = "R" THEN (IF Len(line) >= 3 THEN <<Join(line[3])>> ELSE <<>>)
    ELSE IF line[1].letter = "D" THEN <<>>
    ELSE IF IsModification(line[1]) THEN <<Join(line[2])>> ELSE <<>>

DeletedOf(line) ==
    IF line[1].letter = "D" THEN <<Join(line[2])>> ELSE <<>>

RenamedOf(line) ==
    IF line[1].letter = "R" /\ Len(line) >= 3 THEN <<<<Join(line[2]), Join(line[3])>>>> ELSE <<>>

RECURSIVE Collect(_, _, _)
Collect(lines, i, acc) ==
    IF i > Len(lines) THEN acc
    ELSE Collect(lines, i + 1,
                 [modified |-> acc.modified \o ModifiedOf(lines[i]),
                  deleted |-> acc.deleted \o DeletedOf(lines[i]),
                  renamed |-> acc.renamed \o RenamedOf(lines[i])])

EmptyDelta == [modified |-> <<>>, deleted |-> <<>>, renamed |-> <<>>]

get_git_changed_files(since_commit, returncode, lines) ==
    IF since_commit = <<>> THEN EmptyDelta
    ELSE IF returncode # 0 THEN EmptyDelta
    ELSE Collect(lines, 1, EmptyDelta)

NoDelta == [modified |-> <<>>, deleted |-> <<>>, renamed |-> <<>>, returned |-> FALSE]

GetGitChangedFiles ==
    /\ ~diff_result.returned
    /\ diff_result' =
         [returned |-> TRUE] @@
         get_git_changed_files(diff_input.since_commit, diff_input.returncode, diff_input.lines)
    /\ UNCHANGED <<diff_input, varsEarly, varsButDelta>>

\* since_commit is Optional[str]; git fails with 128 on an unknown commit.
InitDelta ==
    /\ diff_input \in [since_commit : {<<>>, <<"c0ffee">>}, returncode : {0, 128}, lines : Diffs]
    /\ diff_input.returncode # 0 => diff_input.lines = <<>>
    /\ diff_result = NoDelta

InitDeltaRest ==
    /\ diff_input = [since_commit |-> <<>>, returncode |-> 0, lines |-> <<>>]
    /\ diff_result = NoDelta

NextDelta == GetGitChangedFiles

----------------------------------------------------------------------------
(* The lazily created services of configs/services.py: get_collection,      *)
(* get_searcher and set_collection, called from the request threads.  A     *)
(* step is one read or one write of a module global; no lock is taken.      *)

MaxCallers == 2
MaxSets == 1
Callers == 1..MaxCallers

\* _collection and _hybrid_searcher (0 is None), the number of collection
\* handles and the searchers constructed so far, each over a handle, and the
\* handles passed to set_collection.
NoServices == [collection |-> 0, hybrid_searcher |-> 0, handles |-> 0, searchers |-> <<>>, set |-> 0, sets |-> 0]

IdleCaller == [pc |-> "idle", op |-> "", collection |-> 0, searcher |-> 0, after |-> 0]

NothingObtained == [searchers |-> {}, collections |-> {}, stale |-> FALSE]

SetCaller(t, r) == callers' = [callers EXCEPT ![t] = r]

\* HybridSearcher(collection).
HybridSearcher(collection) == [over |-> collection]

\* get_collection, the test `_collection is None`.
GetCollectionTest(t, op) ==
    IF services.collection = 0
    THEN SetCaller(t, [callers[t] EXCEPT !.pc = "gc_create", !.op = op, !.after = services.set])
    ELSE SetCaller(t, [callers[t] EXCEPT !.pc = "gc_return", !.op = op, !.after = services.set])

\* A call of get_collection by a request thread.
GetCollection(t) ==
    /\ callers[t].pc = "idle"
    /\ GetCollectionTest(t, "get_collection")
    /\ UNCHANGED <<services, obtained, varsEarly, varsButServices>>

\* get_collection, the client and the collection are created and assigned.
GetCollectionCreate(t) ==
    /\ callers[t].pc = "gc_create"
    /\ services' = [services EXCEPT !.handles = @ + 1, !.collection = services.handles + 1]
    /\ SetCaller(t, [callers[t] EXCEPT !.pc = "gc_return"])
    /\ UNCHANGED <<obtained, varsEarly, varsButServices>>

\* get_collection, `return _collection`.
GetCollectionReturn(t) ==
    /\ callers[t].pc = "gc_return"
    /\ IF callers[t].op = "get_collection"
       THEN /\ SetCaller(t, IdleCaller)
            /\ obtained' = [obtained EXCEPT !.collections = @ \cup {services.collection}]
       ELSE /\ SetCaller(t, [callers[t] EXCEPT !.pc = "gs_construct", !.collection = services.collection])
            /\ UNCHANGED obtained
    /\ UNCHANGED <<services, varsEarly, varsButServices>>

\* A call of get_searcher, the test `_hybrid_searcher is None` and, when it
\* is, the call of get_collection.
GetSearcher(t) ==
    /\ callers[t].pc = "idle"
    /\ IF services.hybrid_searcher # 0
       THEN SetCaller(t, [callers[t] EXCEPT !.pc = "gs_return", !.op = "get_searcher", !.after = services.set])
       ELSE GetCollectionTest(t, "get_searcher")
    /\ UNCHANGED <<services, obtained, varsEarly, varsButServices>>

\* get_searcher, HybridSearcher(get_collection()).
GetSearcherConstruct(t) ==
    /\ callers[t].pc = "gs_construct"
    /\ services' = [services EXCEPT !.searchers = Append(@, HybridSearcher(callers[t].collection))]
    /\ SetCaller(t, [callers[t] EXCEPT !.pc = "gs_assign", !.searcher = Len(services.searchers) + 1])
    /\ UNCHANGED <<obtained, varsEarly, varsButServices>>

\* get_searcher, the assignment to _hybrid_searcher.
GetSearcherAssign(t) ==
    /\ callers[t].pc = "gs_assign"
    /\ services' = [services EXCEPT !.hybrid_searcher = callers[t].searcher]
    /\ SetCaller(t, [callers[t] EXCEPT !.pc = "gs_return"])
    /\ UNCHANGED <<obtained, varsEarly, varsButServices>>

\* The searcher is over the collection that was set when the call started.
OverSet(h, after) == h # 0 /\ services.searchers[h].over = after

\* get_searcher, `return _hybrid_searcher`.
GetSearcherReturn(t) ==
    /\ callers[t].pc = "gs_return"
    /\ LET h == services.hybrid_searcher
           later == callers[t].after # 0 /\ callers[t].after = services.set
       IN  obtained' = [obtained EXCEPT !.searchers = @ \cup {h},
                                        !.stale = @ \/ (later /\ ~OverSet(h, callers[t].after))]
    /\ SetCaller(t, IdleCaller)
    /\ UNCHANGED <<services, varsEarly, varsButServices>>

\* set_collection(collection) with a new handle.
SetCollection(t) ==
    /\ callers[t].pc = "idle"
    /\ services.sets < MaxSets
    /\ services' = [services EXCEPT !.handles = @ + 1, !.collection = services.handles + 1,
                                    !.hybrid_searcher = 0, !.set = services.handles + 1,
                                    !.sets = @ + 1]
    /\ obtained' = [NothingObtained EXCEPT !.stale = obtained.stale]
    /\ UNCHANGED <<callers, varsEarly, varsButServices>>

InitServices ==
    /\ services = NoServices
    /\ callers = [t \in Callers |-> IdleCaller]
    /\ obtained = NothingObtained

NextServices ==
    \E t \in Callers :
        \/ GetCollection(t)
        \/ GetCollectionCreate(t)
        \/ GetCollectionReturn(t)
        \/ GetSearcher(t)
        \/ GetSearcherConstruct(t)
        \/ GetSearcherAssign(t)
        \/ GetSearcherReturn(t)
        \/ SetCollection(t)

InitButServices == InitDocs /\ InitConfig /\ InitMcp /\ InitCommitRest /\ InitScrub /\ InitDeltaRest

InitLateRest == InitButServices /\ InitServices

InitMigrateRest == schema_version = 0 /\ migration_run = NoRunYet /\ migration_report = NoReport
InitFusionRest == vector_results = <<>> /\ bm25_results = <<>> /\ fused = NotFused
InitScoreRest ==
    /\ reranked = <<>>
    /\ scoring = [recency_boost |-> FALSE, config_min_score |-> 500, min_score |-> NoScore, min_boost |-> 500]
    /\ boosted = <<>>
    /\ filtered = <<>>
    /\ score_pc = "idle"
InitMoreEarly == InitCapture /\ InitMigrateRest /\ InitFusionRest /\ InitScoreRest
InitMore == InitMoreEarly /\ InitLateRest

NextCapture == enqueue \/ worker \/ process_sync


NextFilter == FilterSearch

vars == <<varsFilter, varsSearcher, varsRest>>

\* The other subsystems at rest.
InitRest == InitIngest({FALSE}) /\ InitInsight({EmptyColl}) /\ InitMore

Init == InitFilter /\ InitSearcher /\ InitRest

InitIndex == InitFilter /\ InitOneSearcher /\ InitRest

InitIngestSpec ==
    InitFilter /\ InitSearcher /\ InitIngest(BOOLEAN) /\ InitInsight({EmptyColl}) /\ InitMore

InitInsightSpec ==
    InitFilter /\ InitSearcher /\ InitIngest(BOOLEAN) /\ InitInsight(StoredBefore) /\ InitMore

SpecFilter == Init /\ [][NextFilter]_vars

SpecSearcher == Init /\ [][NextSearcher]_vars

SpecIndex == InitIndex /\ [][NextIndex]_vars

SpecIngest == InitIngestSpec /\ [][NextIngest]_vars

SpecCleanup == Init /\ [][NextCleanup]_vars

SpecInsight == InitInsightSpec /\ [][NextInsight]_vars

InitSupersedeSpec ==
    InitFilter /\ InitSearcher /\ InitIngest({TRUE}) /\ InitSuperseded /\ InitMore

SpecSupersede == InitSupersedeSpec /\ [][NextInsight]_vars

\* Validations of the stored insights, one of them deprecated, as files change
\* and commits go by.
NextRevalidate == ValidateInsight \/ WriteFile \/ git_commit

SpecRevalidate == InitSupersedeSpec /\ [][NextRevalidate]_vars

SpecCapture == Init /\ [][NextCapture]_vars

InitMigrateSpec ==
    InitFilter /\ InitSearcher /\ InitIngest({FALSE}) /\ InitInsight({EmptyColl})
               /\ InitCapture /\ InitMigrate /\ InitFusionRest /\ InitScoreRest /\ InitLateRest

SpecMigrate == InitMigrateSpec /\ [][NextMigrate]_vars

InitFusionSpec ==
    InitFilter /\ InitSearcher /\ InitIngest({FALSE}) /\ InitInsight({EmptyColl})
               /\ InitCapture /\ InitMigrateRest /\ InitFusion /\ InitScoreRest /\ InitLateRest

SpecFusion == InitFusionSpec /\ [][NextFusion]_vars

InitScoreSpec ==
    InitFilter /\ InitSearcher /\ InitIngest({FALSE}) /\ InitInsight({EmptyColl})
               /\ InitCapture /\ InitMigrateRest /\ InitFusionRest /\ InitScore /\ InitLateRest

SpecScore == InitScoreSpec /\ [][NextScore]_vars

InitEarly ==
    InitFilter /\ InitSearcher /\ InitIngest({FALSE}) /\ InitInsight({EmptyColl}) /\ InitMoreEarly

\* Every subsystem at rest.
InitLate == InitEarly /\ InitLateRest

SpecSingleton == InitLate /\ [][NextSingleton]_vars

SpecConfigure == InitLate /\ [][NextConfigure]_vars

SpecMcp == InitLate /\ [][NextMcp]_vars

InitCommitSpec ==
    InitEarly /\ InitDocs /\ InitConfig /\ InitMcp /\ InitCommit /\ InitScrub /\ InitDeltaRest
        /\ InitServices

SpecCommit == InitCommitSpec /\ [][NextCommit]_vars

SpecScrub == InitLate /\ [][NextScrub]_vars

SpecServices == InitLate /\ [][NextServices]_vars

InitDeltaSpec ==
    InitEarly /\ InitDocs /\ InitConfig /\ InitMcp /\ InitCommitRest /\ InitScrub /\ InitDelta
        /\ InitServices

SpecDelta == InitDeltaSpec /\ [][NextDelta]_vars

----------------------------------------------------------------------------
(* C1 *)

\* The filter of the claim: branch-filtered types by branch, memory and
\* context types on every branch, everything when the branch is unknown.
ClaimBranches(e) == IF e \in {"main", "master"} THEN {e} ELSE {e, "main"}

ClaimAdmits(type, dbranch, e) ==
    IF e = "unknown" THEN TRUE
    ELSE \/ (type \in BRANCH_FILTERED_TYPES /\ dbranch \in ClaimBranches(e))
         \/ type \in MemoryTypes \cup ContextTypes

\* C1: for every document and effective branch, with no project filter, the
\* search filter admits the document exactly when the effective branch is
\* unknown, or the type is branch-filtered and the document's branch is in
\* {effective, main}, or the type is a memory/context type.
C1_FilterMatchesTaxonomy ==
    (fq.pc = "done" /\ fq.project = NoneVal)
        => (fq.admitted <=> ClaimAdmits(fq.type, fq.dbranch, fq.effective))

----------------------------------------------------------------------------
(* C2 *)

\* C2: once a save operation has returned success, its document is in the
\* store; the shared searcher's index contains it, or is dirty, unbuilt or
\* being rebuilt from a snapshot that contains it; and every finished search
\* that started after the save returned scored against an index holding it.
C2_SavedIsSearchable ==
    /\ \A d \in returned : d \in store
    /\ \A d \in returned :
          hybrid_searcher # 0 =>
            LET s == searchers[hybrid_searcher]
            IN  \/ s.dirty
                \/ s.index = "none"
                \/ s.index = "partial" /\ d \in th[s.lock].snap
                \/ s.index = "built" /\ d \in s.docs
    /\ "missed" \notin bad

\* A search that started after a save had returned has rebuilt the index of
\* the shared searcher and is about to score against it, after a construction
\* race that left a second searcher behind.
C2_Witness ==
    /\ Len(searchers) = 2
    /\ \E t \in Threads :
          /\ th[t].pc = "s_read"
          /\ th[t].must # {}
          /\ th[t].h = hybrid_searcher
          /\ searchers[th[t].h].lock = 0
          /\ th[t].must \subseteq searchers[th[t].h].docs

----------------------------------------------------------------------------
(* C3 *)

SearchStates == {"s_building", "s_read"}

\* C3: on a built index a search rebuilds exactly when the index is dirty or
\* the rebuild flag is passed; plain searches after a build perform no
\* rebuild, and plain searches after an invalidate perform exactly one,
\* on the first of them.
C3_RebuildExactlyWhenDirty ==
    /\ \A t \in Threads :
          (th[t].pc \in SearchStates /\ th[t].ens.built)
            => (th[t].ens.rebuilt <=> (th[t].ens.dirty \/ th[t].flag))
    /\ ixHist.epoch = "built" => ixHist.rebuilds = 0
    /\ (ixHist.epoch = "invalidated" /\ ixHist.plain >= 1) => ixHist.rebuilds = 1

\* Two plain searches have run since an invalidate of a built index.
C3_Witness ==
    /\ ixHist.epoch = "invalidated"
    /\ ixHist.plain = 2
    /\ searchers[1].index = "built"
    /\ ~searchers[1].dirty

----------------------------------------------------------------------------
(* C4 *)

Rebuilding(h) == {t \in Threads : th[t].pc \in {"b_building", "s_building"} /\ th[t].h = h}

\* C4: at most one rebuild runs at a time on a searcher, the index is partial
\* only while its rebuilder holds the mutex, and no search has scored against
\* a partial or missing index (which would raise).
C4_IndexMutualExclusion ==
    /\ \A h \in 1..Len(searchers) :
          /\ Cardinality(Rebuilding(h)) <= 1
          /\ searchers[h].index = "partial" => Rebuilding(h) = {searchers[h].lock}
          /\ searchers[h].lock # 0 => Rebuilding(h) = {searchers[h].lock}
    /\ bad \cap {"none", "partial"} = {}

\* A searcher waits to read while another thread rebuilds after an invalidate.
C4_Witness ==
    \E t1, t2 \in Threads :
        /\ t1 # t2
        /\ th[t1].pc = "s_building"
        /\ th[t2].pc = "s_read"
        /\ th[t1].h = th[t2].h
        /\ th[t1].ens.dirty /\ th[t1].ens.built

----------------------------------------------------------------------------
(* C5 *)

\* Files created or changed on disk since the previous ingestion completed.
Modified == {f \in Walked : disk[f] # prevDisk[f]}
\* The files the run that has just completed processed or tried to process.
Attempted(run) == run.files_processed \cup run.errors

----------------------------------------------------------------------------
(* C6 *)

\* C6 as stated: when an ingestion or an execute-mode cleanup completes, no
\* file_metadata, dependency, entry_point or data_contract document refers
\* to a missing file, every such document whose file exists is retained,
\* and no memory document has been deleted.
C6_GCOnlyOrphanedFileDocs ==
    [][lastRun'.kind \in {"ingest", "cleanup"} =>
         /\ \A d \in NavDocs(nav') : disk'[d[2]] # Absent
         /\ \A d \in NavDocs(nav) : disk[d[2]] # Absent => d \in NavDocs(nav')
         /\ memory \subseteq memory']_vars

----------------------------------------------------------------------------
(* C7 *)

----------------------------------------------------------------------------
(* C8 *)

\* The insight a validate_insight call has just validated, before and after.
Validated(id) == call'.insight_id = id

\* C8: a validate_insight call sets status = deprecated, deprecated_at and
\* deprecation_reason if and only if validation_result = no_longer_valid
\* and deprecate = true; every other call (deprecate with still_valid or
\* partially_valid, no_longer_valid without deprecate) leaves status,
\* deprecated_at, deprecation_reason, superseded_by, the text and the
\* linked files as they were, creates no document, touches no other
\* document, and changes file_hashes and validated_commit only for
\* still_valid; a previously active insight stays not deprecated.
C8_DeprecatedIffInvalidAndFlag ==
    [][\A id \in InsightIdChoices :
         Validated(id) =>
           LET old == coll[id]
               new == coll'[id]
           IN  IF new.last_validation_result = "no_longer_valid" /\ call'.deprecate
               THEN /\ new.status = "deprecated"
                    /\ new.deprecated_at = now
                    /\ new.deprecation_reason \in {"notes", DefaultReason}
               ELSE /\ new.status = old.status
                    /\ new.deprecated_at = old.deprecated_at
                    /\ new.deprecation_reason = old.deprecation_reason
                    /\ new.superseded_by = old.superseded_by
                    /\ new.text = old.text
                    /\ new.files = old.files
                    /\ old.status = "active" => new.status # "deprecated"
                    /\ new.last_validation_result # "still_valid" =>
                         /\ new.file_hashes = old.file_hashes
                         /\ new.validated_commit = old.validated_commit
                    /\ DOMAIN coll' = DOMAIN coll
                    /\ \A j \in DOMAIN coll \ {id} : coll'[j] = coll[j]
      ]_vars

\* A validate_insight(no_longer_valid, deprecate = true) call has just
\* deprecated an insight that save_insight stored as active.
C8_Witness ==
    /\ call.insight_id # 0
    /\ call.deprecate
    /\ coll[call.insight_id].status = "deprecated"
    /\ coll[call.insight_id].last_validation_result = "no_longer_valid"
    /\ coll[call.insight_id].deprecated_at = now - 1
    /\ coll[call.insight_id].created_at # 0

----------------------------------------------------------------------------
(* C9 *)

\* C9: in every reachable store each insight with a superseded_by pointer
\* is deprecated and the pointer names an insight present in the store.
C9_SupersededByExists ==
    \A i \in DOMAIN coll :
        (coll[i].type = "insight" /\ coll[i].superseded_by # 0) =>
            /\ coll[i].status = "deprecated"
            /\ coll[i].superseded_by \in DOMAIN coll
            /\ coll[coll[i].superseded_by].type = "insight"

----------------------------------------------------------------------------
(* C10 *)

StillValid(id) ==
    Validated(id) /\ coll'[id].last_validation_result = "still_valid"

\* The content hashes of the linked files that are on disk.
OnDiskHashes(files) == compute_file_hashes(files, "cwd")

HashKeys(meta) == {f \in Files : meta.file_hashes[f] # NoHash}

\* C11: save_insight stores nothing for an empty files list, so every
\* insight of the collection has at least one linked file, and every key of
\* its file_hashes is one of its linked files (so file_hashes has no more
\* entries than files) -- after a save, after validate_insight refreshed the
\* hashes and after a replacement insight was created.
C11_InsightsHaveFiles ==
    \A id \in DOMAIN coll :
        coll[id].type = "insight" =>
            /\ coll[id].files # {}
            /\ HashKeys(coll[id]) \subseteq coll[id].files
            /\ Cardinality(HashKeys(coll[id])) <= Cardinality(coll[id].files)

\* A deprecated insight linked to a.py alone was replaced: the replacement
\* carries a hash for a.py and none for b.py, which is on disk too.
C11_Witness ==
    \E id \in DOMAIN coll :
        /\ coll[id].superseded_by \in DOMAIN coll
        /\ coll[id].files = {"a.py"}
        /\ HashKeys(coll[coll[id].superseded_by]) = {"a.py"}
        /\ coll[coll[id].superseded_by].files = {"a.py"}
        /\ disk["b.py"] # Absent

(***************************************************************************)
(* C12 *)
(***************************************************************************)
\* The validate_insight call that has just returned was refused for id.
Refused(id) == call'.error_id = id

\* C12: validate_insight on an id that is not in the store, or on a stored
\* document whose type is not insight, returns an error and writes nothing:
\* the collection, the id supply and the write clock are as before the call,
\* and no step rewrites a stored document that is not an insight.
C12_ValidateErrorWritesNothing ==
    [][\A id \in InsightIdChoices :
          /\ Refused(id) => /\ (id \notin DOMAIN coll \/ coll[id].type # "insight")
                            /\ coll' = coll
                            /\ nextId' = nextId
                            /\ now' = now
          /\ (id \in DOMAIN coll /\ coll[id].type # "insight") =>
                (id \notin DOMAIN coll' \/ coll'[id] = coll[id])
      ]_vars

\* validate_insight has just been refused for a stored note, which is
\* still in the collection as it was saved.
C12_Witness ==
    /\ call.error_id \in DOMAIN coll
    /\ coll[call.error_id] = NoteDoc

\* validate_insight has just been refused for an id the store does not
\* hold, next to a stored insight.
C12_WitnessNotFound ==
    /\ call.error_id # 0
    /\ call.error_id \notin DOMAIN coll
    /\ \E id \in DOMAIN coll : coll[id].type = "insight"

(***************************************************************************)
(* C13 *)
(***************************************************************************)
\* C13: a validate_insight call with deprecate = true and a replacement, on
\* an insight whose superseded_by already names another insight, fails: it
\* does not return "validated" with a new insight in the store, and the
\* stored superseded_by pointer is never rewritten.
C13_SecondReplacementConflicts ==
    [][\A id \in InsightIdChoices :
          (/\ id \in DOMAIN coll
           /\ coll[id].type = "insight"
           /\ coll[id].superseded_by # 0
           /\ coll[id].superseded_by # id) =>
              /\ (Validated(id) /\ call'.deprecate) => DOMAIN coll' = DOMAIN coll
              /\ id \in DOMAIN coll' => coll'[id].superseded_by = coll[id].superseded_by
      ]_vars

(***************************************************************************)
(* C14 *)
(***************************************************************************)
\* C14: for every session id at most one session_summary document is ever
\* written, whatever the order of async submissions, sync submissions,
\* re-submissions and worker steps; a session whose job record is already
\* persisted is queued at most once and summarized at most once.
C14_AtMostOneSummaryPerSession ==
    \A s \in Sessions :
        /\ summaries[s] <= 1
        /\ llm_calls[s] <= 1
        /\ Cardinality({i \in DOMAIN capture_queue : capture_queue[i] = s}) <= 1
        /\ (summaries[s] > 0 \/ llm_calls[s] > 0) =>
              s \in fingerprints /\ \A i \in DOMAIN capture_queue : capture_queue[i] # s

\* C14 (step form): submitting a session whose id is already persisted, or
\* any step that is not its processing, neither invokes the LLM for it nor
\* writes a document for it.
C14_DuplicateIsDropped ==
    [][\A s \in Sessions :
          (s \in fingerprints /\ (capture_queue = <<>> \/ Head(capture_queue) # s)) =>
              /\ llm_calls'[s] = llm_calls[s]
              /\ summaries'[s] = summaries[s]
              /\ presult'[s] = presult[s]
      ]_vars

\* Both sessions were submitted, one summary document was written for each
\* -- one by the worker, one synchronously -- and the queue is drained.
C14_Witness ==
    /\ \A s \in Sessions : summaries[s] = 1 /\ presult[s].success
    /\ fingerprints = Sessions
    /\ capture_queue = <<>>

(***************************************************************************)
(* C15 *)
(***************************************************************************)
LLMFailures == {"no_provider", "provider_raised", "summarize_raised", "empty_summary"}

\* C15: when no provider is available, summarize_session raises or the
\* summary is empty, process_session reports success = false and no
\* document is written for the session; the job has left the queue, and no
\* later step processes the session again.
C15_LLMFailureWritesNothing ==
    [][\A s \in Sessions :
          /\ (happened'[s] \in LLMFailures) =>
                /\ ~presult'[s].success
                /\ presult'[s].error # NoneVal
                /\ summaries'[s] = 0
                /\ \A i \in DOMAIN capture_queue' : capture_queue'[i] # s
          /\ (happened[s] \in LLMFailures) =>
                /\ happened'[s] = happened[s]
                /\ presult'[s] = presult[s]
                /\ llm_calls'[s] = llm_calls[s]
      ]_vars

\* The worker's job for one session failed on an empty summary after one
\* LLM call, and a synchronous job for another found no provider.
C15_Witness ==
    \E s, t \in Sessions :
        /\ happened[s] = "empty_summary"
        /\ presult[s] = ProcessingResult(FALSE, "Summarization returned empty result")
        /\ llm_calls[s] = 1
        /\ summaries[s] = 0
        /\ happened[t] = "no_provider"
        /\ presult[t] = ProcessingResult(FALSE, "No LLM provider available")
        /\ llm_calls[t] = 0
        /\ summaries[t] = 0

(***************************************************************************)
(* C16 *)
(***************************************************************************)
\* The registered versions greater than c, in ascending order.
VersionsAbove(c) == [i \in 1..(MaxVersion - c) |-> c + i]
VersionsOf(results) == [i \in DOMAIN results |-> results[i].version]
Invoked(results) == VersionsOf(SelectSeq(results, LAMBDA r : r.status # "dry_run"))
IsPrefix(a, b) == Len(a) <= Len(b) /\ \A i \in DOMAIN a : a[i] = b[i]
Finished == migration_run.pc = "idle" /\ migration_report # NoReport
Began == migration_run.pc = "loop" \/ Finished
FailedAt(results) == {i \in DOMAIN results : results[i].status = "failed"}

\* The run of run_migrations(dry_run = false) in progress or last finished,
\* measured against the starting version c and the persisted version p
\* before the call: the migrations invoked so far are the first of those
\* above c, in ascending order; the persisted version is that of the last
\* success, or p when there is none; a failure ends the run; a run that
\* finishes without failure has invoked all of them.
RunsAbove(c, p) ==
    LET r == migration_run
        ok == Succeeded(r.results)
    IN  (Began /\ ~r.dry_run) =>
          /\ IsPrefix(Invoked(r.results), VersionsAbove(c))
          /\ schema_version = IF ok = <<>> THEN p ELSE ok[Len(ok)].version
          /\ \A i \in FailedAt(r.results) : i = Len(r.results) /\ r.pending = <<>>
          /\ (Finished /\ FailedAt(r.results) = {}) => Invoked(r.results) = VersionsAbove(c)

\* C16: for any persisted starting version c, run_migrations with
\* dry_run = false invokes exactly the migrations above c, in ascending
\* order; after each success the persisted version is that migration's; at
\* the first failure nothing later is invoked and the persisted version
\* stays at the last success, or at c.
C16_RunsPendingAbovePersisted == RunsAbove(migration_run.started, migration_run.started)

\* C16 (amended): the same with c the starting version of the call --
\* from_version when it is given, the persisted version otherwise -- and
\* the persisted version left as it was before the call when no migration
\* succeeded.
C16_RunsPendingAboveStart == RunsAbove(migration_run.current, migration_run.started)

\* A run from the persisted version 0 applied migration 1, failed in
\* migration 2 and returned without invoking migration 3.
C16_Witness ==
    /\ Finished
    /\ ~migration_run.dry_run
    /\ migration_run.started = 0 /\ migration_run.current = 0
    /\ VersionsOf(migration_run.results) = <<1, 2>>
    /\ migration_run.results[1].status = "success"
    /\ migration_run.results[2].status = "failed"
    /\ schema_version = 1
    /\ migration_report.status = "partial"
    /\ migration_report.migrations_run = 1

(***************************************************************************)
(* C17 *)
(***************************************************************************)
\* C17: run_migrations invokes no migration and does not write the schema
\* version when no registered version is above the current one -- it then
\* reports up_to_date with migrations_run = 0 -- or when dry_run is true --
\* it then lists the pending migrations and nothing else.
C17_NoOpWhenCurrentOrDryRun ==
    LET r == migration_run
    IN  /\ (Finished /\ VersionsAbove(r.current) = <<>>) =>
              /\ migration_report.status = "up_to_date"
              /\ migration_report.migrations_run = 0
              /\ r.results = <<>>
              /\ schema_version = r.started
        /\ migration_report.status = "up_to_date" => VersionsAbove(r.current) = <<>>
        /\ r.dry_run =>
              /\ Invoked(r.results) = <<>>
              /\ schema_version = r.started
              /\ IsPrefix(VersionsOf(r.results), VersionsAbove(r.current))
              /\ Finished => /\ VersionsOf(r.results) = VersionsAbove(r.current)
                             /\ migration_report.migrations_run = 0

\* A dry run over a store at version 1 has returned: it listed every later
\* migration and the persisted version is still 1.
C17_Witness ==
    /\ Finished
    /\ migration_run.dry_run
    /\ migration_run.current = 1
    /\ Len(migration_run.results) = MaxVersion - 1
    /\ schema_version = 1

\* A run at the newest version has returned up_to_date.
C17_WitnessUpToDate ==
    /\ Finished
    /\ ~migration_run.dry_run
    /\ migration_report.status = "up_to_date"
    /\ schema_version = MaxVersion

(***************************************************************************)
(* C18 *)
(***************************************************************************)
\* The ids a hit list holds.
IdsOf(list) == {list[i] : i \in DOMAIN list}

\* 1/(60 + r) summed over the lists that hold id, r its 1-indexed position.
ReciprocalRankSum(id) ==
    LET part(list) ==
            IF id \in IdsOf(list)
            THEN ScoreUnit \div (60 + (CHOOSE i \in DOMAIN list : list[i] = id))
            ELSE 0
    IN  part(vector_results) + part(bm25_results)

\* C18: reciprocal_rank_fusion(V, B) has exactly one entry for each id of V
\* or B and no other, each with rrf_score the sum over the lists holding it
\* of 1/(60 + r), r its 1-indexed rank there; the entries are in descending
\* rrf_score order, a tie going to the lower id.
C18_FusionIsRankSumOrdered ==
    fused # NotFused =>
        /\ {fused[i].id : i \in DOMAIN fused} = IdsOf(vector_results) \cup IdsOf(bm25_results)
        /\ Len(fused) = Cardinality(IdsOf(vector_results) \cup IdsOf(bm25_results))
        /\ \A i \in DOMAIN fused : fused[i].rrf_score = ReciprocalRankSum(fused[i].id)
        /\ \A i, j \in DOMAIN fused :
              i < j => \/ fused[i].rrf_score > fused[j].rrf_score
                       \/ (fused[i].rrf_score = fused[j].rrf_score /\ fused[i].id < fused[j].id)

\* V = <<3, 1>> and B = <<1, 3, 2>> were fused: documents 1 and 3 tie on
\* their rank sums and come out in id order, before document 2.
C18_Witness ==
    /\ vector_results = <<3, 1>>
    /\ bm25_results = <<1, 3, 2>>
    /\ Len(fused) = 3
    /\ <<fused[1].id, fused[2].id, fused[3].id>> = <<1, 3, 2>>
    /\ fused[1].rrf_score = fused[2].rrf_score
    /\ fused[3].rrf_score = ScoreUnit \div 63

(***************************************************************************)
(* C19 *)
(***************************************************************************)
\* The final score of a candidate under the stage order of the claim, in
\* units of 1/(10 * ScoreOne * ScoreOne): rerank_score times the type
\* multiplier times the recency boost; no initiative is in scope of the
\* call, so the affinity stage leaves the score as it is.
FinalScore(hit, s) ==
    hit.rerank_score * TYPE_MULTIPLIERS[hit.type]
        * (IF s.recency_boost THEN RecencyBoost(hit, s.min_boost) ELSE ScoreOne)

\* The per-call min_score when given, the configured one otherwise.
EffectiveMinScore(s) ==
    (IF s.min_score # NoScore THEN s.min_score ELSE s.config_min_score) * 10 * ScoreOne

\* C19: the threshold is applied last, to the score after the type
\* multiplier, the recency boost and the initiative affinity: a reranked
\* candidate is returned exactly when that final score is at least the
\* effective min_score.
C19_ThresholdOnFinalScore ==
    score_pc = "searched" =>
        \A i \in DOMAIN reranked :
            (\E k \in DOMAIN filtered : filtered[k].position = i)
                <=> FinalScore(reranked[i], scoring) >= EffectiveMinScore(scoring)

(***************************************************************************)
(* C20 *)
(***************************************************************************)
\* C20: apply_recency_boost returns every input result once; a result
\* whose type is not note or session_summary has boost 1.0 and its input
\* score as boosted_score; a note or session_summary has a boost of at least
\* min_boost, and of two of them the older never has the larger boost; the
\* output is in descending boosted_score order.
C20_RecencyBoostShape ==
    score_pc = "boosted" =>
        /\ Len(boosted) = Len(reranked)
        /\ {boosted[k].position : k \in DOMAIN boosted} = DOMAIN reranked
        /\ \A k \in DOMAIN boosted :
              LET b == boosted[k]
                  hit == reranked[b.position]
              IN  /\ b.type = hit.type /\ b.rerank_score = hit.rerank_score
                  /\ b.type \notin {"note", "session_summary"} =>
                        b.recency_boost = ScoreOne /\ b.boosted_score = hit.rerank_score
                  /\ b.type \in {"note", "session_summary"} =>
                        /\ b.recency_boost >= scoring.min_boost
                        /\ b.recency_boost <= ScoreOne
                        /\ b.boosted_score * ScoreOne = hit.rerank_score * b.recency_boost
                        /\ \A j \in DOMAIN boosted :
                              (boosted[j].type \in {"note", "session_summary"}
                                 /\ boosted[j].age >= b.age) =>
                                    boosted[j].recency_boost <= b.recency_boost
        /\ \A j, k \in DOMAIN boosted :
              j < k => boosted[j].boosted_score >= boosted[k].boosted_score

\* An old note listed first and a fresh note with the same rerank score
\* were boosted: the fresh one now comes first and the old one sits on the
\* floor.
C20_Witness ==
    /\ score_pc = "boosted"
    /\ scoring.min_boost = 500
    /\ Len(reranked) = 2
    /\ reranked[1] = [type |-> "note", rerank_score |-> 800, age |-> 2]
    /\ reranked[2] = [type |-> "note", rerank_score |-> 800, age |-> 0]
    /\ boosted[1].position = 2 /\ boosted[1].boosted_score = 800
    /\ boosted[2].position = 1 /\ boosted[2].recency_boost = 500
    /\ boosted[2].boosted_score = 400

\* An old dependency document went through the boost unchanged.
C20_WitnessUnboosted ==
    /\ score_pc = "boosted"
    /\ \E k \in DOMAIN boosted :
          /\ boosted[k].type = "dependency" /\ boosted[k].age = MaxAge
          /\ boosted[k].recency_boost = ScoreOne
          /\ boosted[k].boosted_score = boosted[k].rerank_score

----------------------------------------------------------------------------
DocsOf(type, repository, branch) ==
    {d \in repo_docs : d.type = type /\ d.repository = repository /\ d.branch = branch}

\* C21: after any sequence of ingestions and set-tech-stack operations the
\* collection holds at most one skeleton document and at most one tech_stack
\* document for each (repository, branch).
C21_OneSkeletonOneTechStack ==
    \A repository \in Repos, branch \in Branches :
        /\ Cardinality(DocsOf("skeleton", repository, branch)) <= 1
        /\ Cardinality(DocsOf("tech_stack", repository, branch)) <= 1

\* The skeleton of (app, main) and the tech_stack of app are stored, and the
\* last write replaced a document with the second version of its text.
C21_Witness ==
    /\ rewrote
    /\ \E d \in DocsOf("skeleton", "app", "main") : d.text = 2
    /\ \E d \in DocsOf("skeleton", "app", "dev") : d.text = 1
    /\ \E d \in DocsOf("tech_stack", "app", "main") : d.text = 2

----------------------------------------------------------------------------
InRange ==
    /\ CONFIG.min_score \in 0..10
    /\ CONFIG.top_k_retrieve \in 10..200
    /\ CONFIG.top_k_rerank \in 1..50
    /\ CONFIG.recency_half_life_days \in 2..730
    /\ CONFIG.llm_provider \in VALID_LLM_PROVIDERS

Nearest(arg, lo, hi, stored) ==
    arg # <<>> =>
        /\ arg[1] < lo => stored = lo
        /\ arg[1] > hi => stored = hi
        /\ arg[1] \in lo..hi => stored = arg[1]

StoredAsNearest ==
    configure_call.status # "none" =>
        /\ configure_call.status = "configured"
        /\ Nearest(configure_call.min_score, 0, 10, CONFIG.min_score)
        /\ Nearest(configure_call.top_k_retrieve, 10, 200, CONFIG.top_k_retrieve)
        /\ Nearest(configure_call.top_k_rerank, 1, 50, CONFIG.top_k_rerank)
        /\ Nearest(configure_call.recency_half_life_days, 2, 730, CONFIG.recency_half_life_days)

InvalidProviderRejected ==
    (/\ configure_call'.llm_provider # <<>>
     /\ configure_call'.llm_provider[1] \notin VALID_LLM_PROVIDERS)
        => CONFIG'.llm_provider = CONFIG.llm_provider

\* C22: after any sequence of configure calls the runtime configuration has
\* min_score in [0, 1], top_k_retrieve in [10, 200], top_k_rerank in [1, 50],
\* recency_half_life_days in [1, 365] and a valid llm_provider; a numeric
\* input out of range is stored as the nearest bound without an error, and an
\* invalid provider string leaves llm_provider unchanged.
C22_ConfigStaysInRange ==
    [](InRange /\ StoredAsNearest) /\ [][InvalidProviderRejected]_vars

\* A call with min_score 1.5, top_k_retrieve 5, top_k_rerank 100, a half
\* life of half a day and an invalid provider returned, after the provider
\* had been set to ollama.
C22_Witness ==
    /\ configure_call.min_score = <<15>> /\ CONFIG.min_score = 10
    /\ configure_call.top_k_retrieve = <<5>> /\ CONFIG.top_k_retrieve = 10
    /\ configure_call.top_k_rerank = <<100>> /\ CONFIG.top_k_rerank = 50
    /\ configure_call.recency_half_life_days = <<1>> /\ CONFIG.recency_half_life_days = 2
    /\ configure_call.llm_provider = <<"invalid_provider">> /\ CONFIG.llm_provider = "ollama"
    /\ configure_call.changes = {"min_score", "top_k_retrieve", "top_k_rerank", "recency_half_life_days"}

----------------------------------------------------------------------------
Served == mcp_call.name # ""

Known == mcp_call.name \in DOMAIN tool_registry

ValidArguments == Known /\ model_validate(tool_registry[mcp_call.name], mcp_call.arguments)

\* C23: mcp_call_tool never raises to its caller; an unknown tool name,
\* arguments that fail the tool's input schema and an exception raised by the
\* handler each yield isError = true; the handler is invoked only with
\* arguments that passed schema validation, and no handler is invoked for an
\* unknown name or for invalid arguments.
C23_CallToolNeverRaises ==
    Served =>
        /\ ~mcp_call.raised
        /\ ~Known => mcp_call.isError /\ mcp_call.invoked = <<>>
        /\ (Known /\ ~ValidArguments) => mcp_call.isError /\ mcp_call.invoked = <<>>
        /\ mcp_call.invoked # <<>> =>
              /\ ValidArguments
              /\ mcp_call.invoked = <<mcp_call.name>>
              /\ model_validate(tool_registry[mcp_call.name], mcp_call.passed[1])
        /\ (mcp_call.invoked # <<>> /\ mcp_call.content # "result") => mcp_call.isError

\* search_cortex was called with a query and a field set to None, and its
\* handler raised.
C23_Witness ==
    /\ mcp_call.name = "search_cortex"
    /\ mcp_call.arguments = [query |-> "str", min_score |-> "none"]
    /\ mcp_call.invoked = <<"search_cortex">>
    /\ mcp_call.passed = <<[query |-> "str"]>>
    /\ mcp_call.isError /\ mcp_call.content = "error"

\* An unknown tool and a search without its query were each refused.
C23_WitnessUnknown ==
    /\ mcp_call.name = "unknown_tool" /\ mcp_call.isError /\ mcp_call.invoked = <<>>

C23_WitnessInvalid ==
    /\ mcp_call.name = "search_cortex" /\ mcp_call.arguments = [repository |-> "str"]
    /\ mcp_call.isError /\ mcp_call.content = "invalid_arguments" /\ mcp_call.invoked = <<>>

----------------------------------------------------------------------------
HasSecret(text) == \E i \in 1..Len(text) : text[i] = SecretToken

\* C24: for every document written by save_note, save_insight or
\* conclude_session, whatever the title, content, linked files, changed files
\* or summary, the stored document text contains nothing that matches a
\* secret rule.
C24_NoSecretStored == ~HasSecret(stored_text.text)

----------------------------------------------------------------------------
FormerCommits == CommitIds(commit_run.before)

RenamedInPlace ==
    /\ CommitIds(legacy_coll) = {}
    /\ \A id \in FormerCommits :
          /\ NewId(id) \in DOMAIN legacy_coll
          /\ legacy_coll[NewId(id)] = [commit_run.before[id] EXCEPT !.type = "session_summary"]
    /\ Cardinality(DOMAIN legacy_coll) = Cardinality(DOMAIN commit_run.before)

SecondRunChangesNothing ==
    (commit_run.returned = "normal" /\ commit_run'.returned = "normal")
        => legacy_coll' = legacy_coll

\* C25: after the commit-to-session_summary migration returns normally no
\* document of type commit remains, every former commit document exists
\* under session_summary:<suffix> with type session_summary and its original
\* text, embedding and remaining metadata, the number of documents is
\* unchanged, and a second run leaves the collection unchanged.
C25_CommitDocsRenamed ==
    [](commit_run.returned = "normal" => RenamedInPlace) /\ [][SecondRunChangesNothing]_vars

----------------------------------------------------------------------------
Elems(seq) == {seq[i] : i \in 1..Len(seq)}

Diffed == diff_result.returned /\ diff_input.since_commit # <<>> /\ diff_input.returncode = 0

Entries(letters) ==
    {i \in 1..Len(diff_input.lines) : diff_input.lines[i][1].letter \in letters}

EntryPlaced(line) ==
    LET letter == line[1].letter
    IN /\ letter \in {"A", "M", "T"} =>
            /\ Join(line[2]) \in Elems(diff_result.modified)
            /\ Join(line[2]) \notin Elems(diff_result.deleted)
       /\ letter = "D" =>
            /\ Join(line[2]) \in Elems(diff_result.deleted)
            /\ Join(line[2]) \notin Elems(diff_result.modified)
       /\ letter = "R" =>
            /\ <<Join(line[2]), Join(line[3])>> \in Elems(diff_result.renamed)
            /\ Join(line[3]) \in Elems(diff_result.modified)
            /\ Join(line[2]) \notin Elems(diff_result.modified)
            /\ Join(line[3]) \notin Elems(diff_result.deleted)

----------------------------------------------------------------------------
----------------------------------------------------------------------------
StaysDeprecated(id) ==
    (/\ id \in DOMAIN coll /\ coll[id].status = "deprecated"
     /\ id \in DOMAIN coll')
        => /\ coll'[id].status = "deprecated"
           /\ coll'[id].deprecated_at # 0
           /\ coll'[id].deprecation_reason # NoneVal
           /\ coll[id].superseded_by # 0 => coll'[id].superseded_by # 0

\* C28: once an insight is deprecated, no later validate_insight call, with
\* any validation_result and any deprecate flag, makes it active again or
\* removes its deprecated_at, deprecation_reason or superseded_by.
C28_DeprecationIsPermanent ==
    [][\A id \in InsightIdChoices : StaysDeprecated(id)]_vars

\* A deprecated and superseded insight has just been validated as still valid.
C28_Witness ==
    /\ call.insight_id # 0
    /\ coll[call.insight_id].status = "deprecated"
    /\ coll[call.insight_id].superseded_by # 0
    /\ coll[call.insight_id].last_validation_result = "still_valid"
    /\ coll[call.insight_id].verified_at > coll[call.insight_id].deprecated_at

----------------------------------------------------------------------------
\* C29: whenever validate_insight returns status error the store is unchanged
\* by that call; a replacement insight is never left in the store without the
\* original insight having been upserted as deprecated with superseded_by
\* pointing to it, whichever step fails.
C29_ErrorLeavesStoreUnchanged ==
    [][(call'.raised_id # 0 \/ call'.error_id # 0) => coll' = coll]_vars

----------------------------------------------------------------------------
\* Before any set_collection at most one collection handle and one searcher
\* have been created.
CreatedOnce ==
    services.sets = 0 => services.handles <= 1 /\ Len(services.searchers) <= 1

\* The calls returned one instance, never None.
SameInstance ==
    /\ Cardinality(obtained.searchers) <= 1
    /\ Cardinality(obtained.collections) <= 1
    /\ 0 \notin obtained.searchers

\* C30: under concurrent first calls of get_searcher and get_collection
\* exactly one searcher and one collection handle are created and every
\* caller obtains that same instance; after set_collection(c) every later
\* get_searcher returns a searcher built over c.
C30_OneInstancePerService == CreatedOnce /\ SameInstance /\ ~obtained.stale

====
